---- MODULE Spec2Model ----
(***************************************************************************)
(* Memory importance scoring and lifecycle of Echo's MemoryService         *)
(* (backend/app/services/memory_service.py) over the agent_memories table. *)
(*                                                                         *)
(* Time is counted in whole days (CURRENT_TIMESTAMP, julianday('now') and  *)
(* datetime.now() all read the variable now).  Scores are kept in tenths   *)
(* of a point: 4.0 is 40, the range [1, 10] is [10, 100].  The composite   *)
(* effective score, which mixes sevenths of a tenth with logarithms, is    *)
(* computed in the finer unit EffUnit.                                     *)
(*                                                                         *)
(* Every coroutine of the service runs on one event loop and one shared    *)
(* connection, so a handler is interleaved with the others only at its     *)
(* awaits: store_memory, rate_memory and process_memories_with_llm_batch   *)
(* are split at the awaits that separate a read of the table from the      *)
(* write that depends on it.                                               *)
(***************************************************************************)
EXTENDS Integers, Sequences, FiniteSets, TLC

VARIABLES
    rows,             \* agent_memories: id -> row, for the ids that exist
    nextId,           \* the id the next INSERT receives
    now,              \* the clock, in days
    embedding_model,  \* MemoryService.embedding_model is loaded
    store_pc,         \* per store_memory call: where it is suspended
    rate_pc,          \* per rate_memory call: where it is suspended
    batch_pc,         \* per process_memories_with_llm_batch call
    ret               \* what the handler that returned last returned

vars == <<rows, nextId, now, embedding_model, store_pc, rate_pc, batch_pc, ret>>

----------------------------------------------------------------------------
(* Bounds of the model *)

MaxRows == 2          \* rows ever inserted
MaxLifeRows == 1      \* rows ever inserted in the lifecycle specification
MaxAccess == 3        \* access_count is not bumped beyond this
MaxBatch == 2         \* largest batch_size passed to the batch processor
MaxScenarioRows == 1  \* rows in the table at a time in the pruning scenario
MaxScoreDay == 222    \* last day on which the scores are computed

StoreCalls == {"s1", "s2"}
RateCalls == {"r1"}
BatchCalls == {"b1", "b2"}

\* the days on which handlers run: day 0, and the days around the 60-day
\* staleness window, the 14-day archive window and the 30-day delete window
Days == {0, 59, 60, 73, 74, 75, 103, 104, 105}

(* Inputs.  Scores are in tenths: 120 is a candidate score outside        *)
(* [1, 10]; 53 is a score whose composite effective score lies on either  *)
(* side of the pruning threshold, depending on the accesses and the days. *)
Contents ==
    { <<"i", "prefer", "tea", "over", "coffee">>, <<"we", "met", "today">> }
CandScores == {40, 120}
AdjInputs == {-7, -3, 5}
JudgeNumbers == {0, 73, 150}
BatchContents ==
    { <<"i", "prefer", "tea", "over", "coffee">>, <<"i", "usually", "walk">> }
BatchDays == {0, 1}
SelectAdjInputs == {2}
LifeContents == { <<"i", "prefer", "tea", "over", "coffee">> }
LifeScores == {40, 53}
LifeAdjInputs == {-3, -1}
RetrieveContents ==
    { <<"i", "prefer", "tea", "over", "coffee">>, <<"i", "usually", "walk">> }
RetrieveAdjInputs == {3}
RetrieveJudgeNumbers == {73}
RetrieveLimits == {1, 2}
SimValues == {2, 9}
ReadsDays == {65, 80}
SourceDays == {0, 65, 80, 111}
SourceJudgeOutcomes ==
    { [ kind |-> "number", value |-> 73 ], [ kind |-> "unavailable", value |-> 0 ] }

----------------------------------------------------------------------------
(* Program constants *)

NULL == -1
MinAdjustment == -3
MaxAdjustment == 3
MinScore == 10
MaxScore == 100
DefaultLlmScore == 50
GraceDays == 7
MaxDecayPoints == 3
MinWeightDays == 30
LowAccessCount == 3
StaleDays == 60
MinAgeDays == 30
PruneScore == 20
ArchiveDays == 14
DeleteDays == 30
CandidateLimit == 100
SimilarityWeight == 70
ImportanceWeight == 3
MostAccessedLimit == 5
DeletionReason == "User marked irrelevant, low access, stale"

Clamp(x, lo, hi) == IF x < lo THEN lo ELSE IF x > hi THEN hi ELSE x

Ids == 1..MaxRows

----------------------------------------------------------------------------
(* Rule-based classification and scoring of a sentence.  A content is a    *)
(* sequence of lower-case words and a keyword occurs in it when its words  *)
(* occur in a row (the sentences of Contents hold no word of which a       *)
(* keyword is a proper part).                                              *)

Contains(text, kw) ==
    \E i \in 1..Len(text) :
        /\ i + Len(kw) - 1 <= Len(text)
        /\ SubSeq(text, i, i + Len(kw) - 1) = kw

ContainsAny(text, kws) == \E kw \in kws : Contains(text, kw)

ClassifyMemoryType(text) ==
    IF ContainsAny(text, {<<"name">>, <<"work">>, <<"live">>,
                          <<"years", "old">>, <<"have", "a">>})
    THEN "factual"
    ELSE IF ContainsAny(text, {<<"prefer">>, <<"like">>, <<"love">>, <<"hate">>,
                               <<"don't", "like">>, <<"call", "me">>})
    THEN "preference"
    ELSE IF ContainsAny(text, {<<"usually">>, <<"always">>, <<"often">>, <<"every">>})
    THEN "behavioral"
    ELSE IF ContainsAny(text, {<<"wife">>, <<"husband">>, <<"partner">>, <<"mom">>,
                               <<"dad">>, <<"sister">>, <<"brother">>, <<"friend">>})
    THEN "relational"
    ELSE "contextual"

CalculateImportance(text) ==
    LET memory_type == ClassifyMemoryType(text) IN
    IF memory_type \in {"factual", "preference"} THEN 40
    ELSE IF memory_type = "relational" THEN 35
    ELSE IF memory_type = "behavioral" THEN 30
    ELSE 25

----------------------------------------------------------------------------
(* The composite effective score.  One point is EffUnit; a score in tenths *)
(* s is s * EffUnit \div 10.  EffUnit is a multiple of 70, 60 and 10, so   *)
(* the decay per day, the recency weight in thirtieths and the halving and *)
(* the factor 1.5 of a rated memory are all exact; only ln is rounded (up, *)
(* to 1/140000 of a point).  No score of the model's inputs puts a memory  *)
(* without accesses exactly on the pruning threshold, so the rounding of  *)
(* the doubles of the code changes no comparison.                          *)

LnUnit == 14 * 10000
EffUnit == 60 * LnUnit

\* math.log(n) * 0.5 in LnUnit, rounded up
HalfLn(n) ==
    CASE n = 1 -> 0
      [] n = 2 -> 48521
      [] n = 3 -> 76903
      [] n = 4 -> 97041
      [] n = 5 -> 112661
      [] n = 6 -> 125424
      [] n = 7 -> 136214
      [] n = 8 -> 145561
      [] n = 9 -> 153806
      [] OTHER -> 161181

Min(a, b) == IF a < b THEN a ELSE b
Max(a, b) == IF a > b THEN a ELSE b

\* last_accessed_at or created_at
LastRelevantDate(memory) ==
    IF memory.last_accessed_at # NULL THEN memory.last_accessed_at
    ELSE memory.created_at

\* the decay without its cap of 3 points
CalculateRecencyDecayUncapped(memory, today) ==
    LET days_since == today - LastRelevantDate(memory) IN
    IF days_since <= GraceDays THEN 0
    ELSE - (days_since - GraceDays) * (EffUnit \div 70)

CalculateRecencyDecay(memory, today) ==
    LET days_since == today - LastRelevantDate(memory) IN
    IF days_since <= GraceDays THEN 0
    ELSE - Min(MaxDecayPoints * EffUnit, (days_since - GraceDays) * (EffUnit \div 70))

\* recency_weight in thirtieths: max(0.2, 1 - days_since_access / 30)
RecencyWeight30(memory, today) ==
    IF memory.last_accessed_at # NULL
    THEN Max(6, MinWeightDays - (today - memory.last_accessed_at))
    ELSE 6

CalculateFrequencyBoost(memory, today) ==
    IF memory.access_count = 0 THEN 0
    ELSE Min(2 * LnUnit, HalfLn(memory.access_count + 1))
            * RecencyWeight30(memory, today) * 2

EffectiveBase(memory) ==
    IF memory.llm_importance_score # NULL THEN memory.llm_importance_score
    ELSE memory.base_importance_score

\* the composite without the halved decay and the factor 1.5 on the boost
\* of a rated memory
CalculateEffectiveScoreUndamped(memory, today) ==
    LET base == EffectiveBase(memory) * (EffUnit \div 10)
        user_adj == memory.user_score_adjustment * EffUnit
        recency_decay == CalculateRecencyDecay(memory, today)
        frequency_boost == CalculateFrequencyBoost(memory, today)
        final == base + user_adj + recency_decay + frequency_boost
    IN  [ score |-> Clamp(final, EffUnit, 10 * EffUnit),
          breakdown |-> [ base |-> base, user_adjustment |-> user_adj,
                          recency_decay |-> recency_decay,
                          frequency_boost |-> frequency_boost ] ]

CalculateEffectiveScore(memory, today) ==
    LET base == EffectiveBase(memory) * (EffUnit \div 10)
        user_adj == memory.user_score_adjustment * EffUnit
        d == CalculateRecencyDecay(memory, today)
        b == CalculateFrequencyBoost(memory, today)
        recency_decay == IF memory.user_rated THEN d \div 2 ELSE d
        frequency_boost == IF memory.user_rated THEN (b * 3) \div 2 ELSE b
        final == base + user_adj + recency_decay + frequency_boost
    IN  [ score |-> Clamp(final, EffUnit, 10 * EffUnit),
          breakdown |-> [ base |-> base, user_adjustment |-> user_adj,
                          recency_decay |-> recency_decay,
                          frequency_boost |-> frequency_boost ] ]

----------------------------------------------------------------------------
(* The table *)

Exists(id) == id \in DOMAIN rows

UpdateRow(id, changes) ==
    [ i \in DOMAIN rows |->
        IF i = id
        THEN [ f \in DOMAIN rows[i] |->
                 IF f \in DOMAIN changes THEN changes[f] ELSE rows[i][f] ]
        ELSE rows[i] ]

\* INSERT INTO agent_memories: the columns the statement names, the others
\* at their column defaults
NewRow(memory, embedding) ==
    [ memory_type |-> memory.memory_type,
      content |-> memory.content,
      importance_score |-> memory.base_importance_score,
      base_importance_score |-> memory.base_importance_score,
      final_importance_score |-> memory.final_importance_score,
      score_source |-> memory.score_source,
      embedding |-> embedding,
      llm_importance_score |-> NULL,
      user_score_adjustment |-> 0,
      user_rated |-> FALSE,
      user_rated_at |-> NULL,
      llm_processed |-> FALSE,
      llm_processed_at |-> NULL,
      marked_for_deletion |-> FALSE,
      marked_for_deletion_at |-> NULL,
      deletion_reason |-> "NULL",
      archived |-> FALSE,
      archived_at |-> NULL,
      is_active |-> TRUE,
      created_at |-> now,
      last_accessed_at |-> NULL,
      access_count |-> 0 ]

\* a candidate as the extraction builds it: one score, source 'rule'
Candidates(contents, scores) ==
    { [ memory_type |-> ClassifyMemoryType(c),
        content |-> c, base_importance_score |-> s,
        final_importance_score |-> s, score_source |-> "rule" ] :
      c \in contents, s \in scores }

\* extract_memories_from_conversation: both scores are the rule-based score
ConversationCandidate(content) ==
    [ memory_type |-> ClassifyMemoryType(content),
      content |-> content,
      base_importance_score |-> CalculateImportance(content),
      final_importance_score |-> CalculateImportance(content),
      score_source |-> "rule" ]

\* process_entry_for_memories: the rule-based score times 1.2
EntryCandidate(content) ==
    [ memory_type |-> ClassifyMemoryType(content),
      content |-> content,
      base_importance_score |-> (CalculateImportance(content) * 12) \div 10,
      final_importance_score |-> (CalculateImportance(content) * 12) \div 10,
      score_source |-> "rule" ]

Extracted(contents) ==
    { ConversationCandidate(c) : c \in contents }
      \cup { EntryCandidate(c) : c \in contents }

\* the candidates handed to store_memory in each specification
StoreInputs == Candidates(Contents, CandScores)
LifeInputs == Candidates(LifeContents, LifeScores)
BatchInputs == Extracted(BatchContents)
ConversationInputs ==
    [ c \in BatchContents \cup RetrieveContents \cup LifeContents |->
        ConversationCandidate(c) ]

Idle == [ pc |-> "idle" ]

----------------------------------------------------------------------------
(* store_memory *)

\* SELECT id FROM agent_memories WHERE content = ? AND is_active = 1
ActiveWithContent(content) ==
    { id \in DOMAIN rows : rows[id].content = content /\ rows[id].is_active }

PendingInserts == Cardinality({ p \in StoreCalls : store_pc[p].pc = "insert" })

\* the bound on the rows ever inserted, the inserts under way counted
RoomFor(n) == nextId + PendingInserts + n - 1 <= MaxRows

\* cursor.lastrowid of an INSERT.  The statement that creates the table is
\* not among the sources; the id is a stable surrogate identifier, handed
\* out in increasing order and not given to a second row.
NewId == nextId

InsertRow(memory, embedding) ==
    /\ rows' = [ i \in DOMAIN rows \cup {NewId} |->
                   IF i = NewId THEN NewRow(memory, embedding) ELSE rows[i] ]
    /\ nextId' = nextId + 1
    /\ ret' = [ op |-> "store", val |-> NewId ]

\* the call up to its first write: the embedding, then the duplicate lookup
\* when there is an embedding
StoreLookup(p, memory, encodeOk) ==
    /\ store_pc[p].pc = "idle"
    /\ LET embedding == embedding_model /\ encodeOk IN
       IF embedding
       THEN /\ \/ \E existing \in ActiveWithContent(memory.content) :
                    /\ rows[existing].access_count < MaxAccess
                    /\ store_pc' = [store_pc EXCEPT ![p] =
                                      [ pc |-> "bump", existing |-> existing ]]
               \/ /\ ActiveWithContent(memory.content) = {}
                  /\ RoomFor(1)
                  /\ store_pc' = [store_pc EXCEPT ![p] =
                                   [ pc |-> "insert", memory |-> memory,
                                     embedding |-> embedding ]]
            /\ UNCHANGED <<rows, nextId, ret>>
       ELSE /\ RoomFor(1)
            /\ InsertRow(memory, embedding)
            /\ UNCHANGED store_pc
    /\ UNCHANGED <<now, embedding_model, rate_pc, batch_pc>>

\* the bump without the refresh of last_accessed_at
StoreBumpCountOnly(p) ==
    /\ store_pc[p].pc = "bump"
    /\ LET id == store_pc[p].existing IN
       /\ Exists(id) => rows[id].access_count < MaxAccess
       /\ rows' = IF Exists(id)
                  THEN UpdateRow(id, [ access_count |-> rows[id].access_count + 1 ])
                  ELSE rows
       /\ ret' = [ op |-> "store", val |-> id ]
    /\ store_pc' = [store_pc EXCEPT ![p] = Idle]
    /\ UNCHANGED <<nextId, now, embedding_model, rate_pc, batch_pc>>

\* UPDATE ... SET access_count = access_count + 1, last_accessed_at = now
StoreBump(p) ==
    /\ store_pc[p].pc = "bump"
    /\ LET id == store_pc[p].existing IN
       /\ Exists(id) => rows[id].access_count < MaxAccess
       /\ rows' = IF Exists(id)
                  THEN UpdateRow(id, [ access_count |-> rows[id].access_count + 1,
                                       last_accessed_at |-> now ])
                  ELSE rows
       /\ ret' = [ op |-> "store", val |-> id ]
    /\ store_pc' = [store_pc EXCEPT ![p] = Idle]
    /\ UNCHANGED <<nextId, now, embedding_model, rate_pc, batch_pc>>

StoreInsert(p) ==
    /\ store_pc[p].pc = "insert"
    /\ InsertRow(store_pc[p].memory, store_pc[p].embedding)
    /\ store_pc' = [store_pc EXCEPT ![p] = Idle]
    /\ UNCHANGED <<now, embedding_model, rate_pc, batch_pc>>

----------------------------------------------------------------------------
(* rate_memory *)

\* a rating that reports success for an id that has no row
RateReadMissingOk(p, memory_id, a) ==
    /\ rate_pc[p].pc = "idle"
    /\ LET adjustment == Clamp(a, MinAdjustment, MaxAdjustment) IN
       IF ~ Exists(memory_id)
       THEN /\ ret' = [ op |-> "rate", val |-> TRUE ]
            /\ UNCHANGED rate_pc
       ELSE /\ rate_pc' = [rate_pc EXCEPT ![p] =
                 [ pc |-> "write", memory_id |-> memory_id,
                   adjustment |-> adjustment,
                   base |-> EffectiveBase(rows[memory_id]),
                   final_score |-> Clamp(EffectiveBase(rows[memory_id])
                                           + 10 * adjustment, MinScore, MaxScore) ]]
            /\ UNCHANGED ret
    /\ UNCHANGED <<rows, nextId, now, embedding_model, store_pc, batch_pc>>

\* a rating added to the current final score instead of the base
RateReadAccumulating(p, memory_id, a) ==
    /\ rate_pc[p].pc = "idle"
    /\ LET adjustment == Clamp(a, MinAdjustment, MaxAdjustment) IN
       IF ~ Exists(memory_id)
       THEN /\ ret' = [ op |-> "rate", val |-> FALSE ]
            /\ UNCHANGED rate_pc
       ELSE /\ rate_pc' = [rate_pc EXCEPT ![p] =
                 [ pc |-> "write", memory_id |-> memory_id,
                   adjustment |-> adjustment,
                   base |-> EffectiveBase(rows[memory_id]),
                   final_score |-> Clamp(rows[memory_id].final_importance_score
                                           + 10 * adjustment, MinScore, MaxScore) ]]
            /\ UNCHANGED ret
    /\ UNCHANGED <<rows, nextId, now, embedding_model, store_pc, batch_pc>>

\* a rating that takes the adjustment as it is given
RateReadUnclamped(p, memory_id, a) ==
    /\ rate_pc[p].pc = "idle"
    /\ LET adjustment == a IN
       IF ~ Exists(memory_id)
       THEN /\ ret' = [ op |-> "rate", val |-> FALSE ]
            /\ UNCHANGED rate_pc
       ELSE /\ rate_pc' = [rate_pc EXCEPT ![p] =
                 [ pc |-> "write", memory_id |-> memory_id,
                   adjustment |-> adjustment,
                   base |-> EffectiveBase(rows[memory_id]),
                   final_score |-> Clamp(EffectiveBase(rows[memory_id])
                                           + 10 * adjustment, MinScore, MaxScore) ]]
            /\ UNCHANGED ret
    /\ UNCHANGED <<rows, nextId, now, embedding_model, store_pc, batch_pc>>

\* the clamp of the adjustment, the SELECT and the new final score
RateRead(p, memory_id, a) ==
    /\ rate_pc[p].pc = "idle"
    /\ LET adjustment == Clamp(a, MinAdjustment, MaxAdjustment) IN
       IF ~ Exists(memory_id)
       THEN /\ ret' = [ op |-> "rate", val |-> FALSE ]
            /\ UNCHANGED rate_pc
       ELSE /\ rate_pc' = [rate_pc EXCEPT ![p] =
                 [ pc |-> "write", memory_id |-> memory_id,
                   adjustment |-> adjustment,
                   base |-> EffectiveBase(rows[memory_id]),
                   final_score |-> Clamp(EffectiveBase(rows[memory_id])
                                           + 10 * adjustment, MinScore, MaxScore) ]]
            /\ UNCHANGED ret
    /\ UNCHANGED <<rows, nextId, now, embedding_model, store_pc, batch_pc>>

\* a rating that takes the memory out of the deletion queue
RateWriteUnmarks(p) ==
    /\ rate_pc[p].pc = "write"
    /\ LET id == rate_pc[p].memory_id IN
       rows' = IF Exists(id)
               THEN UpdateRow(id, [ user_score_adjustment |-> rate_pc[p].adjustment,
                                    final_importance_score |-> rate_pc[p].final_score,
                                    user_rated |-> TRUE,
                                    user_rated_at |-> now,
                                    score_source |-> "user_modified",
                                    marked_for_deletion |-> FALSE,
                                    marked_for_deletion_at |-> NULL,
                                    deletion_reason |-> "NULL" ])
               ELSE rows
    /\ ret' = [ op |-> "rate", val |-> TRUE ]
    /\ rate_pc' = [rate_pc EXCEPT ![p] = Idle]
    /\ UNCHANGED <<nextId, now, embedding_model, store_pc, batch_pc>>

\* UPDATE ... WHERE id = ?
RateWrite(p) ==
    /\ rate_pc[p].pc = "write"
    /\ LET id == rate_pc[p].memory_id IN
       rows' = IF Exists(id)
               THEN UpdateRow(id, [ user_score_adjustment |-> rate_pc[p].adjustment,
                                    final_importance_score |-> rate_pc[p].final_score,
                                    user_rated |-> TRUE,
                                    user_rated_at |-> now,
                                    score_source |-> "user_modified" ])
               ELSE rows
    /\ ret' = [ op |-> "rate", val |-> TRUE ]
    /\ rate_pc' = [rate_pc EXCEPT ![p] = Idle]
    /\ UNCHANGED <<nextId, now, embedding_model, store_pc, batch_pc>>

----------------------------------------------------------------------------
(* process_memories_with_llm_batch *)

Eligible ==
    { id \in DOMAIN rows :
        /\ ~ rows[id].llm_processed
        /\ ~ rows[id].user_rated
        /\ rows[id].is_active }

\* the selection without ORDER BY: any n of the rows, in any order
OldestFirstUnordered(E, n) ==
    LET k == Min(n, Cardinality(E)) IN
    { q \in [1..k -> E] : \A i, j \in 1..k : i < j => q[i] # q[j] }

\* ... ORDER BY created_at ASC LIMIT ?: the results the query can give (rows
\* of equal created_at come in either order)
OldestFirst(E, n) ==
    LET k == Min(n, Cardinality(E)) IN
    { q \in [1..k -> E] :
        /\ \A i, j \in 1..k : i < j =>
              /\ q[i] # q[j]
              /\ rows[q[i]].created_at <= rows[q[j]].created_at
        /\ \A e \in E \ { q[i] : i \in 1..k } :
              \A i \in 1..k : rows[q[i]].created_at <= rows[e].created_at }

JudgeOutcomes ==
    { [ kind |-> "number", value |-> v ] : v \in JudgeNumbers }
      \cup { [ kind |-> "nonumber", value |-> 0 ],
             [ kind |-> "unavailable", value |-> 0 ],
             [ kind |-> "error", value |-> 0 ] }

\* the first number of the response taken as it is
CalculateImportanceWithLlmUnclamped(content, outcome) ==
    CASE outcome.kind = "number" -> outcome.value
      [] outcome.kind = "nonumber" -> DefaultLlmScore
      [] OTHER -> CalculateImportance(content)

\* calculate_importance_with_llm: the first number of the response clamped,
\* 5.0 without a number, the rule-based score when the call raises
CalculateImportanceWithLlm(content, outcome) ==
    CASE outcome.kind = "number" -> Clamp(outcome.value, MinScore, MaxScore)
      [] outcome.kind = "nonumber" -> DefaultLlmScore
      [] OTHER -> CalculateImportance(content)

BatchSelect(b, batch_size) ==
    /\ batch_pc[b].pc = "idle"
    /\ IF Eligible = {}
       THEN /\ ret' = [ op |-> "batch", val |-> 0 ]
            /\ UNCHANGED batch_pc
       ELSE /\ \E q \in OldestFirst(Eligible, batch_size) :
                 batch_pc' = [batch_pc EXCEPT ![b] =
                    [ pc |-> "items",
                      memories |-> [ i \in DOMAIN q |->
                                       [ id |-> q[i], content |-> rows[q[i]].content ] ],
                      processed_count |-> 0 ]]
            /\ UNCHANGED ret
    /\ UNCHANGED <<rows, nextId, now, embedding_model, store_pc, rate_pc>>

\* the UPDATE without "AND user_rated = 0" and without the CASE on the
\* source: the source column is written for every row
LlmWriteSourceAlways(id, llm_score) ==
    IF Exists(id)
    THEN UpdateRow(id, [ llm_importance_score |-> llm_score,
                         final_importance_score |->
                             IF rows[id].user_rated
                             THEN rows[id].final_importance_score ELSE llm_score,
                         llm_processed |-> TRUE,
                         llm_processed_at |-> now,
                         score_source |-> "llm" ])
    ELSE rows

\* the UPDATE without "AND user_rated = 0": its CASE keeps the final score
\* and the source of a rated row, the other columns are written
LlmWriteAnyRow(id, llm_score) ==
    IF Exists(id)
    THEN UpdateRow(id, [ llm_importance_score |-> llm_score,
                         final_importance_score |->
                             IF rows[id].user_rated
                             THEN rows[id].final_importance_score ELSE llm_score,
                         llm_processed |-> TRUE,
                         llm_processed_at |-> now,
                         score_source |->
                             IF rows[id].user_rated
                             THEN rows[id].score_source ELSE "llm" ])
    ELSE rows

\* UPDATE ... WHERE id = ? AND user_rated = 0
LlmWrite(id, llm_score) ==
    IF Exists(id) /\ ~ rows[id].user_rated
    THEN UpdateRow(id, [ llm_importance_score |-> llm_score,
                         final_importance_score |-> llm_score,
                         llm_processed |-> TRUE,
                         llm_processed_at |-> now,
                         score_source |-> "llm" ])
    ELSE rows

\* one turn of the loop: the judge call and the write of its score (the
\* call reads nothing of the table, so it is taken at the time of the
\* write); an item that raises is logged and not counted.  After the last
\* item the batch commits and returns its count.
BatchItem(b, outcome) ==
    /\ batch_pc[b].pc = "items"
    /\ LET memory == Head(batch_pc[b].memories)
           rest == Tail(batch_pc[b].memories)
           count == IF outcome.kind = "error"
                    THEN batch_pc[b].processed_count
                    ELSE batch_pc[b].processed_count + 1
       IN
       /\ rows' = IF outcome.kind = "error" THEN rows
                  ELSE LlmWrite(memory.id,
                                CalculateImportanceWithLlm(memory.content, outcome))
       /\ IF rest = <<>>
          THEN /\ batch_pc' = [batch_pc EXCEPT ![b] = Idle]
               /\ ret' = [ op |-> "batch", val |-> count ]
          ELSE /\ batch_pc' = [batch_pc EXCEPT ![b] =
                     [ pc |-> "items", memories |-> rest, processed_count |-> count ]]
               /\ UNCHANGED ret
    /\ UNCHANGED <<nextId, now, embedding_model, store_pc, rate_pc>>

----------------------------------------------------------------------------
(* The pruning sweeps, rescue and soft delete.  A sweep is taken from its   *)
(* SELECT to its return in one step: the specification that runs the     *)
(* sweeps (SpecLife) calls the handlers one at a time.                     *)

DaysSince(t) == now - t

\* the selection of the mark sweep without "marked_for_deletion = 0"
PruneCandidatesMarkedToo ==
    { id \in DOMAIN rows :
        /\ rows[id].is_active
        /\ rows[id].user_rated
        /\ rows[id].user_score_adjustment = MinAdjustment
        /\ rows[id].access_count < LowAccessCount
        /\ DaysSince(LastRelevantDate(rows[id])) >= StaleDays
        /\ DaysSince(rows[id].created_at) >= MinAgeDays }

PruneCandidates ==
    { id \in DOMAIN rows :
        /\ rows[id].is_active
        /\ rows[id].user_rated
        /\ rows[id].user_score_adjustment = MinAdjustment
        /\ rows[id].access_count < LowAccessCount
        /\ DaysSince(LastRelevantDate(rows[id])) >= StaleDays
        /\ DaysSince(rows[id].created_at) >= MinAgeDays
        /\ ~ rows[id].marked_for_deletion }

\* the sweep without the test of the effective score
DeletionBatchUngated ==
    PruneCandidates

DeletionBatch ==
    { id \in PruneCandidates :
        CalculateEffectiveScore(rows[id], now).score <= PruneScore * (EffUnit \div 10) }

\* a mark sweep that also takes the final score of a flagged memory down
\* to the lowest score
MarkMemoriesForDeletionLowersScore ==
    /\ rows' = [ id \in DOMAIN rows |->
                   IF id \in DeletionBatch
                   THEN [ rows[id] EXCEPT !.marked_for_deletion = TRUE,
                                          !.marked_for_deletion_at = now,
                                          !.deletion_reason = DeletionReason,
                                          !.final_importance_score = MinScore ]
                   ELSE rows[id] ]
    /\ ret' = [ op |-> "mark", val |-> DeletionBatch ]
    /\ UNCHANGED <<nextId, now, embedding_model, store_pc, rate_pc, batch_pc>>

\* the mark written without its reason
MarkMemoriesForDeletionNoReason ==
    /\ rows' = [ id \in DOMAIN rows |->
                   IF id \in DeletionBatch
                   THEN [ rows[id] EXCEPT !.marked_for_deletion = TRUE,
                                          !.marked_for_deletion_at = now ]
                   ELSE rows[id] ]
    /\ ret' = [ op |-> "mark", val |-> DeletionBatch ]
    /\ UNCHANGED <<nextId, now, embedding_model, store_pc, rate_pc, batch_pc>>

MarkMemoriesForDeletion ==
    /\ rows' = [ id \in DOMAIN rows |->
                   IF id \in DeletionBatch
                   THEN [ rows[id] EXCEPT !.marked_for_deletion = TRUE,
                                          !.marked_for_deletion_at = now,
                                          !.deletion_reason = DeletionReason ]
                   ELSE rows[id] ]
    /\ ret' = [ op |-> "mark", val |-> DeletionBatch ]
    /\ UNCHANGED <<nextId, now, embedding_model, store_pc, rate_pc, batch_pc>>

\* the archive sweep with "more than" for "at least"
ToArchiveAfter ==
    { id \in DOMAIN rows :
        /\ rows[id].marked_for_deletion
        /\ rows[id].marked_for_deletion_at # NULL
        /\ DaysSince(rows[id].marked_for_deletion_at) > ArchiveDays
        /\ ~ rows[id].archived }

ToArchive ==
    { id \in DOMAIN rows :
        /\ rows[id].marked_for_deletion
        /\ rows[id].marked_for_deletion_at # NULL
        /\ DaysSince(rows[id].marked_for_deletion_at) >= ArchiveDays
        /\ ~ rows[id].archived }

\* the archive sweep without "is_active = 0"
ArchiveMarkedMemoriesStillActive ==
    /\ rows' = [ id \in DOMAIN rows |->
                   IF id \in ToArchive
                   THEN [ rows[id] EXCEPT !.archived = TRUE,
                                          !.archived_at = now ]
                   ELSE rows[id] ]
    /\ ret' = [ op |-> "archive", val |-> Cardinality(ToArchive) ]
    /\ UNCHANGED <<nextId, now, embedding_model, store_pc, rate_pc, batch_pc>>

ArchiveMarkedMemories ==
    /\ rows' = [ id \in DOMAIN rows |->
                   IF id \in ToArchive
                   THEN [ rows[id] EXCEPT !.archived = TRUE,
                                          !.archived_at = now,
                                          !.is_active = FALSE ]
                   ELSE rows[id] ]
    /\ ret' = [ op |-> "archive", val |-> Cardinality(ToArchive) ]
    /\ UNCHANGED <<nextId, now, embedding_model, store_pc, rate_pc, batch_pc>>

\* the delete sweep without the test of the adjustment
ToDeleteAnyRating ==
    { id \in DOMAIN rows :
        /\ rows[id].archived
        /\ rows[id].archived_at # NULL
        /\ DaysSince(rows[id].archived_at) >= DeleteDays }

ToDelete ==
    { id \in DOMAIN rows :
        /\ rows[id].archived
        /\ rows[id].archived_at # NULL
        /\ DaysSince(rows[id].archived_at) >= DeleteDays
        /\ rows[id].user_score_adjustment = MinAdjustment }

PermanentlyDeleteArchived ==
    /\ rows' = [ id \in DOMAIN rows \ ToDelete |-> rows[id] ]
    /\ ret' = [ op |-> "delete", val |-> Cardinality(ToDelete) ]
    /\ UNCHANGED <<nextId, now, embedding_model, store_pc, rate_pc, batch_pc>>

\* rescue that makes the memory unrated again
RescueMemoryUnrates(memory_id) ==
    /\ rows' = IF Exists(memory_id)
               THEN UpdateRow(memory_id, [ marked_for_deletion |-> FALSE,
                                           marked_for_deletion_at |-> NULL,
                                           deletion_reason |-> "NULL",
                                           user_score_adjustment |-> 0,
                                           user_rated |-> FALSE,
                                           user_rated_at |-> now ])
               ELSE rows
    /\ ret' = [ op |-> "rescue", val |-> TRUE ]
    /\ UNCHANGED <<nextId, now, embedding_model, store_pc, rate_pc, batch_pc>>

\* rescue that leaves the rating where it is
RescueMemoryKeepsRating(memory_id) ==
    /\ rows' = IF Exists(memory_id)
               THEN UpdateRow(memory_id, [ marked_for_deletion |-> FALSE,
                                           marked_for_deletion_at |-> NULL,
                                           deletion_reason |-> "NULL",
                                           user_rated_at |-> now ])
               ELSE rows
    /\ ret' = [ op |-> "rescue", val |-> TRUE ]
    /\ UNCHANGED <<nextId, now, embedding_model, store_pc, rate_pc, batch_pc>>

RescueMemory(memory_id) ==
    /\ rows' = IF Exists(memory_id)
               THEN UpdateRow(memory_id, [ marked_for_deletion |-> FALSE,
                                           marked_for_deletion_at |-> NULL,
                                           deletion_reason |-> "NULL",
                                           user_score_adjustment |-> 0,
                                           user_rated_at |-> now ])
               ELSE rows
    /\ ret' = [ op |-> "rescue", val |-> TRUE ]
    /\ UNCHANGED <<nextId, now, embedding_model, store_pc, rate_pc, batch_pc>>

DeactivateOutdatedMemories(memory_id) ==
    /\ Exists(memory_id)
    /\ rows[memory_id].is_active
    /\ rows' = UpdateRow(memory_id, [ is_active |-> FALSE ])
    /\ UNCHANGED <<nextId, now, embedding_model, store_pc, rate_pc, batch_pc, ret>>

Tick(d) ==
    /\ d > now
    /\ now' = d
    /\ UNCHANGED <<rows, nextId, embedding_model, store_pc, rate_pc, batch_pc, ret>>

----------------------------------------------------------------------------
(* Reads: retrieve_relevant_memories, get_unrated_memories and             *)
(* get_memory_summary.  A read is taken from its first SELECT to its       *)
(* return in one step: the specifications that run the reads call the      *)
(* handlers one at a time.  The value returned is kept in ret.             *)

\* the first n of E in an order in which no row stands behind one that it
\* comes before (before holds the pairs <<a, b>> of which a comes before
\* b); rows that neither comes before the other stand in either order
TopRanked(E, n, before) ==
    LET k == Min(n, Cardinality(E)) IN
    { q \in [1..k -> E] :
        /\ \A i, j \in 1..k : i < j => (q[i] # q[j] /\ <<q[j], q[i]>> \notin before)
        /\ \A e \in E \ { q[i] : i \in 1..k } :
              \A i \in 1..k : <<e, q[i]>> \notin before }

Range(q) == { q[i] : i \in DOMAIN q }

\* the rows without the test of is_active
ActiveOrNot ==
    DOMAIN rows

\* WHERE is_active = 1
Active ==
    { id \in DOMAIN rows : rows[id].is_active }

\* ORDER BY importance_score DESC
ByImportance(a, b) == rows[a].importance_score > rows[b].importance_score

\* WHERE is_active = 1 AND embedding IS NOT NULL ORDER BY importance_score
\* DESC LIMIT 100
SemanticCandidates ==
    LET embedded == { id \in Active : rows[id].embedding } IN
    TopRanked(embedded, CandidateLimit,
              { p \in embedded \X embedded : ByImportance(p[1], p[2]) })

\* (similarity * 0.7) + (importance_score / 10.0 * 0.3), in thousandths;
\* the similarity in tenths, a function of the content that was embedded
RelevanceScore(sim, id) ==
    sim[rows[id].content] * SimilarityWeight
        + rows[id].importance_score * ImportanceWeight

\* the candidates sorted by their combined score, the first limit of them
SemanticSearch(sim, limit) ==
    UNION { TopRanked(Range(candidates), limit,
                      { p \in Range(candidates) \X Range(candidates) :
                          RelevanceScore(sim, p[1]) > RelevanceScore(sim, p[2]) }) :
            candidates \in SemanticCandidates }

\* WHERE is_active = 1 ORDER BY importance_score DESC, access_count DESC
\* LIMIT ?
KeywordSearch(limit) ==
    TopRanked(Active, limit,
              { p \in Active \X Active :
                  \/ ByImportance(p[1], p[2])
                  \/ /\ rows[p[1]].importance_score = rows[p[2]].importance_score
                     /\ rows[p[1]].access_count > rows[p[2]].access_count })

\* the memories the call finds: the semantic search when the service has
\* its embedding model and the search does not raise, the keyword search
\* when that gave nothing
Retrieved(sim, limit, searchOk) ==
    LET semantic == IF embedding_model /\ searchOk
                    THEN SemanticSearch(sim, limit) ELSE { << >> }
    IN  UNION { IF DOMAIN memories = {} THEN KeywordSearch(limit) ELSE { memories } :
                memories \in semantic }

\* the UPDATE without its WHERE: every active row is touched
TouchRowsEveryActive(ids) ==
    [ id \in DOMAIN rows |->
        IF ids # {} /\ rows[id].is_active
        THEN [ rows[id] EXCEPT !.last_accessed_at = now,
                               !.access_count = rows[id].access_count + 1 ]
        ELSE rows[id] ]

\* UPDATE ... SET last_accessed_at = now, access_count = access_count + 1
\* WHERE id IN (the memories found)
TouchRows(ids) ==
    [ id \in DOMAIN rows |->
        IF id \in ids
        THEN [ rows[id] EXCEPT !.last_accessed_at = now,
                               !.access_count = rows[id].access_count + 1 ]
        ELSE rows[id] ]

RetrieveRelevantMemories(sim, limit, searchOk) ==
    /\ \E memories \in Retrieved(sim, limit, searchOk) :
          /\ \A id \in Range(memories) : rows[id].access_count < MaxAccess
          /\ rows' = TouchRows(Range(memories))
          /\ ret' = [ op |-> "retrieve", val |-> memories ]
    /\ UNCHANGED <<nextId, now, embedding_model, store_pc, rate_pc, batch_pc>>

\* WHERE user_rated = 0 AND is_active = 1 ORDER BY llm_processed DESC,
\* created_at DESC LIMIT ?, each memory with its effective score
GetUnratedMemories(limit) ==
    /\ \E memories \in TopRanked({ id \in Active : ~ rows[id].user_rated }, limit,
              { p \in Active \X Active :
                  \/ rows[p[1]].llm_processed /\ ~ rows[p[2]].llm_processed
                  \/ /\ rows[p[1]].llm_processed = rows[p[2]].llm_processed
                     /\ rows[p[1]].created_at > rows[p[2]].created_at }) :
          ret' = [ op |-> "unrated",
                   val |-> [ i \in DOMAIN memories |->
                               [ id |-> memories[i],
                                 effective_score_data |->
                                     CalculateEffectiveScore(rows[memories[i]], now) ] ] ]
    /\ UNCHANGED <<rows, nextId, now, embedding_model, store_pc, rate_pc, batch_pc>>

\* the counts by type, the total and the five most accessed, each over
\* WHERE is_active = 1
GetMemorySummary ==
    /\ \E most_accessed \in TopRanked(Active, MostAccessedLimit,
              { p \in Active \X Active :
                  rows[p[1]].access_count > rows[p[2]].access_count }) :
          ret' = [ op |-> "summary",
                   val |-> [ total_memories |-> Cardinality(Active),
                             by_type |->
                                 [ t \in { rows[id].memory_type : id \in Active } |->
                                     Cardinality({ id \in Active : rows[id].memory_type = t }) ],
                             most_accessed |-> most_accessed ] ]
    /\ UNCHANGED <<rows, nextId, now, embedding_model, store_pc, rate_pc, batch_pc>>

----------------------------------------------------------------------------

Init ==
    /\ rows = << >>
    /\ nextId = 1
    /\ now = 0
    /\ embedding_model = TRUE
    /\ store_pc = [ p \in StoreCalls |-> Idle ]
    /\ rate_pc = [ p \in RateCalls |-> Idle ]
    /\ batch_pc = [ b \in BatchCalls |-> Idle ]
    /\ ret = [ op |-> "none", val |-> 0 ]

AllIdle ==
    /\ \A p \in StoreCalls : store_pc[p].pc = "idle"
    /\ \A p \in RateCalls : rate_pc[p].pc = "idle"
    /\ \A b \in BatchCalls : batch_pc[b].pc = "idle"

(* Rescoring against feedback: rate_memory and a run of the batch          *)
(* processor interleaved at their awaits with each other and with stores  *)
(* of new content, on one day.                                             *)
Next ==
    \/ \E memory \in StoreInputs :
          /\ ActiveWithContent(memory.content) = {}
          /\ StoreLookup("s1", memory, TRUE)
    \/ StoreInsert("s1")
    \/ \E id \in Ids, a \in AdjInputs : RateRead("r1", id, a)
    \/ RateWrite("r1")
    \/ \E n \in 1..MaxBatch : BatchSelect("b1", n)
    \/ \E outcome \in JudgeOutcomes : BatchItem("b1", outcome)

Spec == Init /\ [][Next]_vars

(* Deduplication: two store_memory calls interleaved at their awaits, with *)
(* and without an embedding, next to the soft delete.                      *)
NextStore ==
    \/ \E p \in StoreCalls, memory \in StoreInputs, encodeOk \in BOOLEAN :
          StoreLookup(p, memory, encodeOk)
    \/ \E p \in StoreCalls : StoreBump(p)
    \/ \E p \in StoreCalls : StoreInsert(p)
    \/ \E id \in Ids : DeactivateOutdatedMemories(id)

\* the service with and without its embedding model
InitStore ==
    /\ embedding_model \in BOOLEAN
    /\ rows = << >>
    /\ nextId = 1
    /\ now = 0
    /\ store_pc = [ p \in StoreCalls |-> Idle ]
    /\ rate_pc = [ p \in RateCalls |-> Idle ]
    /\ batch_pc = [ b \in BatchCalls |-> Idle ]
    /\ ret = [ op |-> "none", val |-> 0 ]

SpecStore == InitStore /\ [][NextStore]_vars

(* Lifecycle: store_memory, rate_memory, the sweeps, rescue_memory and the  *)
(* soft delete called one after the other, each running to its return,    *)
(* with the clock advancing between them.                                  *)
NextLife ==
    \/ /\ AllIdle
       /\ \E memory \in LifeInputs :
             /\ ActiveWithContent(memory.content) # {} \/ nextId <= MaxLifeRows
             /\ StoreLookup("s1", memory, TRUE)
    \/ StoreBump("s1")
    \/ StoreInsert("s1")
    \/ /\ AllIdle
       /\ \E id \in Ids, a \in LifeAdjInputs : RateRead("r1", id, a)
    \/ RateWrite("r1")
    \/ /\ AllIdle
       /\ MarkMemoriesForDeletion
    \/ /\ AllIdle
       /\ ArchiveMarkedMemories
    \/ /\ AllIdle
       /\ PermanentlyDeleteArchived
    \/ /\ AllIdle
       /\ \E id \in Ids : RescueMemory(id)
    \/ /\ AllIdle
       /\ \E id \in Ids : DeactivateOutdatedMemories(id)
    \/ /\ AllIdle
       /\ \E d \in Days : Tick(d)

SpecLife == Init /\ [][NextLife]_vars

(* Rescoring: two runs of the batch processor interleaved at their awaits  *)
(* with each other and with stores of the memories the extraction builds  *)
(* from conversations and journal entries, over two days.                  *)
NextBatch ==
    \/ \E memory \in BatchInputs :
          /\ ActiveWithContent(memory.content) = {}
          /\ StoreLookup("s1", memory, TRUE)
    \/ StoreInsert("s1")
    \/ \E b \in BatchCalls, n \in 1..MaxBatch : BatchSelect(b, n)
    \/ \E b \in BatchCalls, outcome \in JudgeOutcomes : BatchItem(b, outcome)
    \/ \E d \in BatchDays : Tick(d)

SpecBatch == Init /\ [][NextBatch]_vars

(* Selection: runs of the batch processor over memories that were stored  *)
(* on different days, rated, soft-deleted or scored before, every call     *)
(* running to its return before the next begins.                           *)
NextSelect ==
    \/ /\ AllIdle
       /\ \E c \in BatchContents :
             /\ ActiveWithContent(c) = {}
             /\ StoreLookup("s1", ConversationInputs[c], TRUE)
    \/ StoreInsert("s1")
    \/ /\ AllIdle
       /\ \E id \in Ids, a \in SelectAdjInputs : RateRead("r1", id, a)
    \/ RateWrite("r1")
    \/ /\ AllIdle
       /\ \E id \in Ids : DeactivateOutdatedMemories(id)
    \/ /\ AllIdle
       /\ \E n \in 1..MaxBatch : BatchSelect("b1", n)
    \/ \E outcome \in JudgeOutcomes : BatchItem("b1", outcome)
    \/ /\ AllIdle
       /\ \E d \in BatchDays : Tick(d)

SpecSelect == Init /\ [][NextSelect]_vars

(* The pruning scenario: the handlers of the lifecycle called one after    *)
(* the other under a periodic scheduler.  The clock moves from one         *)
(* scheduled day to the next, and the scheduler has run the sweeps of a    *)
(* day before the next one begins; every call runs to its return.          *)
ScenarioDays == {0, 4, 65, 80, 111}

SweepsDone == DeletionBatch = {} /\ ToArchive = {} /\ ToDelete = {}

ScenarioTick ==
    /\ AllIdle
    /\ SweepsDone
    /\ \E d \in ScenarioDays :
          /\ \A e \in ScenarioDays : e > now => d <= e
          /\ Tick(d)

NextScenario ==
    \/ /\ AllIdle
       /\ \E memory \in LifeInputs :
             /\ \/ ActiveWithContent(memory.content) # {}
                \/ Cardinality(DOMAIN rows) < MaxScenarioRows
             /\ StoreLookup("s1", memory, TRUE)
    \/ StoreBump("s1")
    \/ StoreInsert("s1")
    \/ /\ AllIdle
       /\ \E id \in Ids, a \in LifeAdjInputs : RateRead("r1", id, a)
    \/ RateWrite("r1")
    \/ /\ AllIdle
       /\ MarkMemoriesForDeletion
    \/ /\ AllIdle
       /\ ArchiveMarkedMemories
    \/ /\ AllIdle
       /\ PermanentlyDeleteArchived
    \/ /\ AllIdle
       /\ \E id \in Ids : RescueMemory(id)
    \/ ScenarioTick

SpecScenario ==
    /\ Init
    /\ [][NextScenario]_vars
    /\ WF_vars(StoreBump("s1"))
    /\ WF_vars(StoreInsert("s1"))
    /\ WF_vars(RateWrite("r1"))
    /\ SF_vars(AllIdle /\ MarkMemoriesForDeletion)
    /\ SF_vars(AllIdle /\ ArchiveMarkedMemories)
    /\ SF_vars(AllIdle /\ PermanentlyDeleteArchived)
    /\ SF_vars(ScenarioTick)

(* Provenance: every handler that writes a memory.  The stores, the       *)
(* sweeps and the rescue run to their return one after the other; a       *)
(* rating and a run of the batch processor interleave at their awaits.    *)
NextSource ==
    \/ /\ AllIdle
       /\ \E memory \in LifeInputs :
             /\ \/ ActiveWithContent(memory.content) # {}
                \/ Cardinality(DOMAIN rows) < MaxScenarioRows
             /\ StoreLookup("s1", memory, TRUE)
    \/ StoreBump("s1")
    \/ StoreInsert("s1")
    \/ /\ store_pc["s1"].pc = "idle"
       /\ \E id \in Ids, a \in LifeAdjInputs : RateRead("r1", id, a)
    \/ RateWrite("r1")
    \/ /\ store_pc["s1"].pc = "idle"
       /\ BatchSelect("b1", 1)
    \/ \E outcome \in SourceJudgeOutcomes : BatchItem("b1", outcome)
    \/ /\ AllIdle
       /\ MarkMemoriesForDeletion
    \/ /\ AllIdle
       /\ ArchiveMarkedMemories
    \/ /\ AllIdle
       /\ PermanentlyDeleteArchived
    \/ /\ AllIdle
       /\ \E id \in Ids : RescueMemory(id)
    \/ /\ AllIdle
       /\ \E d \in SourceDays : Tick(d)

SpecSource == Init /\ [][NextSource]_vars

(* Feedback: the handlers of the provenance specification, the ratings    *)
(* given with adjustments inside and outside [-3, 3].                      *)
NextAdjust ==
    \/ /\ AllIdle
       /\ \E memory \in LifeInputs :
             /\ \/ ActiveWithContent(memory.content) # {}
                \/ Cardinality(DOMAIN rows) < MaxScenarioRows
             /\ StoreLookup("s1", memory, TRUE)
    \/ StoreBump("s1")
    \/ StoreInsert("s1")
    \/ /\ store_pc["s1"].pc = "idle"
       /\ \E id \in Ids, a \in AdjInputs : RateRead("r1", id, a)
    \/ RateWrite("r1")
    \/ /\ store_pc["s1"].pc = "idle"
       /\ BatchSelect("b1", 1)
    \/ \E outcome \in SourceJudgeOutcomes : BatchItem("b1", outcome)
    \/ /\ AllIdle
       /\ MarkMemoriesForDeletion
    \/ /\ AllIdle
       /\ ArchiveMarkedMemories
    \/ /\ AllIdle
       /\ PermanentlyDeleteArchived
    \/ /\ AllIdle
       /\ \E id \in Ids : RescueMemory(id)
    \/ /\ AllIdle
       /\ \E d \in SourceDays : Tick(d)

SpecAdjust == Init /\ [][NextAdjust]_vars

(* Progress of the rescoring: runs of the batch processor under a          *)
(* periodic scheduler, next to stores, ratings and soft deletes, every     *)
(* call running to its return before the next begins.  The turn of the     *)
(* loop raises on every attempt for the memories of RaisingContents (a     *)
(* row whose key_entities is not JSON makes json.loads raise each time)    *)
(* and the judge answers 7.3 for the others.                               *)
RaisingContents == { <<"i", "usually", "walk">> }

BatchTurn(b) ==
    /\ batch_pc[b].pc = "items"
    /\ IF Head(batch_pc[b].memories).content \in RaisingContents
       THEN BatchItem(b, [ kind |-> "error", value |-> 0 ])
       ELSE BatchItem(b, [ kind |-> "number", value |-> 73 ])

NextStarve ==
    \/ /\ AllIdle
       /\ \E c \in BatchContents :
             /\ ActiveWithContent(c) = {}
             /\ StoreLookup("s1", ConversationInputs[c], TRUE)
    \/ StoreInsert("s1")
    \/ /\ AllIdle
       /\ \E id \in Ids, a \in SelectAdjInputs : RateRead("r1", id, a)
    \/ RateWrite("r1")
    \/ /\ AllIdle
       /\ \E id \in Ids : DeactivateOutdatedMemories(id)
    \/ /\ AllIdle
       /\ \E n \in 1..MaxBatch : BatchSelect("b1", n)
    \/ BatchTurn("b1")
    \/ /\ AllIdle
       /\ \E d \in BatchDays : Tick(d)

SpecStarve ==
    /\ Init
    /\ [][NextStarve]_vars
    /\ WF_vars(StoreInsert("s1"))
    /\ WF_vars(RateWrite("r1"))
    /\ WF_vars(BatchTurn("b1"))
    /\ SF_vars(AllIdle /\ \E n \in 1..MaxBatch : BatchSelect("b1", n))

(* Scoring: calculate_recency_decay, calculate_effective_score and the     *)
(* marking sweep, which calls it, applied to one memory, day after day.    *)
(* The memory is drawn from the rule and judge scores, ratings, dates and  *)
(* access counts below; the value of a call is dropped when the day ends.  *)
ScoreBases == {25, 40, 100}
ScoreJudgeScores == {NULL, 73}
ScoreDates == {0, 4}
ScoreAccessCounts == {1, 3}
ScoreAdjInputs == {-3, 0, 3}

ScoreMemories ==
    { [ NewRow(Candidate, TRUE) EXCEPT
          !.llm_importance_score = llm,
          !.llm_processed = (llm # NULL),
          !.user_rated = rated,
          !.user_score_adjustment = IF rated THEN a ELSE 0,
          !.created_at = created,
          !.last_accessed_at = accessed[1],
          !.access_count = accessed[2] ] :
        Candidate \in Candidates(LifeContents, ScoreBases),
        llm \in ScoreJudgeScores, rated \in BOOLEAN, a \in ScoreAdjInputs,
        created \in ScoreDates,
        accessed \in { <<NULL, 0>> } \cup (ScoreDates \X ScoreAccessCounts) }

InitScore ==
    /\ now = 4
    /\ rows \in { [ id \in {1} |-> memory ] : memory \in ScoreMemories }
    /\ nextId = 2
    /\ embedding_model = TRUE
    /\ store_pc = [ p \in StoreCalls |-> Idle ]
    /\ rate_pc = [ p \in RateCalls |-> Idle ]
    /\ batch_pc = [ b \in BatchCalls |-> Idle ]
    /\ ret = [ op |-> "none", val |-> 0 ]

RecencyDecayCall ==
    /\ ret' = [ op |-> "decay", val |-> CalculateRecencyDecay(rows[1], now) ]
    /\ UNCHANGED <<rows, nextId, now, embedding_model, store_pc, rate_pc, batch_pc>>

EffectiveScoreCall ==
    /\ ret' = [ op |-> "effective", val |-> CalculateEffectiveScore(rows[1], now) ]
    /\ UNCHANGED <<rows, nextId, now, embedding_model, store_pc, rate_pc, batch_pc>>

ScoreTick ==
    /\ now < MaxScoreDay
    /\ now' = now + 1
    /\ ret' = [ op |-> "none", val |-> 0 ]
    /\ UNCHANGED <<rows, nextId, embedding_model, store_pc, rate_pc, batch_pc>>

NextScore ==
    \/ RecencyDecayCall
    \/ EffectiveScoreCall
    \/ MarkMemoriesForDeletion
    \/ ScoreTick

SpecScore == InitScore /\ [][NextScore]_vars

(* Retrieval: retrieve_relevant_memories over memories stored with and    *)
(* without an embedding, rated, scored by the judge or soft-deleted in     *)
(* between, every call running to its return before the next begins.      *)
NextRetrieve ==
    \/ /\ AllIdle
       /\ \E c \in RetrieveContents, encodeOk \in BOOLEAN :
             StoreLookup("s1", ConversationInputs[c], encodeOk)
    \/ StoreBump("s1")
    \/ StoreInsert("s1")
    \/ /\ AllIdle
       /\ \E id \in Ids, a \in RetrieveAdjInputs : RateRead("r1", id, a)
    \/ RateWrite("r1")
    \/ /\ AllIdle
       /\ \E n \in 1..MaxBatch : BatchSelect("b1", n)
    \/ \E v \in RetrieveJudgeNumbers :
          BatchItem("b1", [ kind |-> "number", value |-> v ])
    \/ /\ AllIdle
       /\ \E id \in Ids : DeactivateOutdatedMemories(id)
    \/ /\ AllIdle
       /\ \E sim \in [RetrieveContents -> SimValues],
             limit \in RetrieveLimits, searchOk \in BOOLEAN :
             RetrieveRelevantMemories(sim, limit, searchOk)

SpecRetrieve == Init /\ [][NextRetrieve]_vars

(* Visibility: the reads, the batch processor and the sweeps over memories *)
(* that were archived or soft-deleted, every call running to its return   *)
(* before the next begins.  A memory is rated -3 once, which makes it a    *)
(* candidate of the marking sweep.                                         *)
NextReads ==
    \/ /\ AllIdle
       /\ \E c \in LifeContents :
             StoreLookup("s1", ConversationInputs[c], TRUE)
    \/ StoreBump("s1")
    \/ StoreInsert("s1")
    \/ /\ AllIdle
       /\ \E id \in DOMAIN rows :
             /\ ~ rows[id].user_rated
             /\ RateRead("r1", id, MinAdjustment)
    \/ RateWrite("r1")
    \/ /\ AllIdle
       /\ BatchSelect("b1", MaxBatch)
    \/ \E v \in RetrieveJudgeNumbers :
          BatchItem("b1", [ kind |-> "number", value |-> v ])
    \/ /\ AllIdle
       /\ \E id \in Ids : DeactivateOutdatedMemories(id)
    \/ /\ AllIdle
       /\ MarkMemoriesForDeletion
    \/ /\ AllIdle
       /\ ArchiveMarkedMemories
    \/ /\ AllIdle
       /\ \E limit \in RetrieveLimits, searchOk \in BOOLEAN :
             RetrieveRelevantMemories([ c \in LifeContents |-> 9 ], limit, searchOk)
    \/ /\ AllIdle
       /\ \E limit \in RetrieveLimits : GetUnratedMemories(limit)
    \/ /\ AllIdle
       /\ GetMemorySummary
    \/ /\ AllIdle
       /\ \E d \in ReadsDays : Tick(d)

SpecReads == Init /\ [][NextReads]_vars

----------------------------------------------------------------------------
(* Properties *)

BatchSelectStep == \E b \in BatchCalls, n \in 1..MaxBatch : BatchSelect(b, n)

BatchItemStep == \E b \in BatchCalls, outcome \in JudgeOutcomes : BatchItem(b, outcome)

\* C1: once a memory is user-rated, no step of the batch processor changes
\* its final score, score source, judge score or processed flag (a batch
\* that selected it before the rating writes nothing to it), and a batch
\* that starts afterwards does not select it.
C1_RatingSurvivesBatch ==
    [][ \A id \in Ids :
          (Exists(id) /\ rows[id].user_rated) =>
             /\ (BatchSelectStep \/ BatchItemStep) =>
                   /\ id \in DOMAIN rows'
                   /\ rows'[id].final_importance_score = rows[id].final_importance_score
                   /\ rows'[id].score_source = rows[id].score_source
                   /\ rows'[id].llm_importance_score = rows[id].llm_importance_score
                   /\ rows'[id].llm_processed = rows[id].llm_processed
             /\ \A b \in BatchCalls :
                   (\E n \in 1..MaxBatch : BatchSelect(b, n)) =>
                       id \notin { batch_pc'[b].memories[i].id :
                                     i \in IF batch_pc'[b].pc = "items"
                                           THEN DOMAIN batch_pc'[b].memories ELSE {} }
      ]_vars

\* a batch has returned a count of at least one although every memory was
\* rated before its turn came: rated, and untouched by the judge
C1_Witness ==
    /\ ret.op = "batch"
    /\ ret.val >= 1
    /\ DOMAIN rows # {}
    /\ \A id \in DOMAIN rows :
          /\ rows[id].user_rated
          /\ ~ rows[id].llm_processed
          /\ rows[id].llm_importance_score = NULL
          /\ rows[id].score_source = "user_modified"

\* C2: a rate_memory call that nothing interleaves with stores the
\* adjustment clamped to [-3, 3] and the final score clamp(b + a', 1, 10),
\* b the judge score when there is one and the rule-based score otherwise,
\* sets user_rated and the source 'user_modified', and returns true; the
\* result depends on the last adjustment only.
C2_RateSetsScore ==
    [][ \A p \in RateCalls :
          /\ \A id \in Ids, a \in AdjInputs :
                (RateRead(p, id, a) /\ Exists(id)) =>
                   /\ rate_pc'[p].pc = "write"
                   /\ rate_pc'[p].adjustment >= -3
                   /\ rate_pc'[p].adjustment <= 3
                   /\ (a >= -3 /\ a <= 3) => rate_pc'[p].adjustment = a
                   /\ a < -3 => rate_pc'[p].adjustment = -3
                   /\ a > 3 => rate_pc'[p].adjustment = 3
          /\ (/\ RateWrite(p)
              /\ Exists(rate_pc[p].memory_id)
              /\ EffectiveBase(rows[rate_pc[p].memory_id]) = rate_pc[p].base) =>
                LET id == rate_pc[p].memory_id
                    b == IF rows[id].llm_importance_score # NULL
                         THEN rows[id].llm_importance_score
                         ELSE rows[id].base_importance_score
                    sum == b + 10 * rate_pc[p].adjustment
                IN /\ rows'[id].user_score_adjustment = rate_pc[p].adjustment
                   /\ rows'[id].final_importance_score =
                         (IF sum < 10 THEN 10 ELSE IF sum > 100 THEN 100 ELSE sum)
                   /\ rows'[id].user_rated
                   /\ rows'[id].score_source = "user_modified"
                   /\ ret' = [ op |-> "rate", val |-> TRUE ]
      ]_vars

\* a memory of rule-based score 4.0 rated -3 (from an input of -3 or -7)
\* stands at 1.0, and one with a judge score of 10.0 rated -3 at 7.0
C2_Witness ==
    /\ ret = [ op |-> "rate", val |-> TRUE ]
    /\ \E id \in DOMAIN rows :
          /\ rows[id].base_importance_score = 40
          /\ rows[id].llm_importance_score = NULL
          /\ rows[id].user_score_adjustment = -3
          /\ rows[id].final_importance_score = 10
          /\ rows[id].user_rated
    /\ \E id \in DOMAIN rows :
          /\ rows[id].llm_importance_score = 100
          /\ rows[id].user_score_adjustment = -3
          /\ rows[id].final_importance_score = 70
          /\ rows[id].user_rated

\* C3: every stored memory has its final score in [1, 10] and, when it has
\* a judge score, the judge score in [1, 10].
C3_ScoresInRange ==
    \A id \in DOMAIN rows :
       /\ rows[id].final_importance_score >= 10
       /\ rows[id].final_importance_score <= 100
       /\ rows[id].llm_importance_score # NULL =>
             /\ rows[id].llm_importance_score >= 10
             /\ rows[id].llm_importance_score <= 100

\* C4: no two active memories have the same content.
C4_NoDuplicateActive ==
    \A i, j \in DOMAIN rows :
       (i # j /\ rows[i].is_active /\ rows[j].is_active) =>
          rows[i].content # rows[j].content

\* C5: two store_memory calls with the same content that both reach the
\* duplicate lookup (both have an embedding) and interleave at their awaits
\* never leave two active memories with that content.
C5_NoDuplicateFromRace ==
    \A i, j \in DOMAIN rows :
       (/\ i # j
        /\ rows[i].is_active /\ rows[j].is_active
        /\ rows[i].embedding /\ rows[j].embedding) =>
          rows[i].content # rows[j].content

\* the columns a duplicate hit leaves alone
KeptOnDuplicate ==
    { "content", "importance_score", "base_importance_score",
      "final_importance_score", "score_source", "embedding",
      "llm_importance_score", "user_score_adjustment", "user_rated",
      "user_rated_at", "llm_processed", "llm_processed_at",
      "marked_for_deletion", "marked_for_deletion_at", "deletion_reason",
      "archived", "archived_at", "is_active", "created_at" }

\* C6: a store_memory call whose lookup finds an active memory of the same
\* content inserts nothing: it returns that memory's id, adds one to its
\* access_count and refreshes last_accessed_at, and leaves its scores, its
\* adjustment, its source and its lifecycle flags as they were.
C6_DuplicateHitBumps ==
    [][ \A p \in StoreCalls :
          /\ \A memory \in LifeInputs :
                (/\ StoreLookup(p, memory, TRUE)
                 /\ embedding_model
                 /\ ActiveWithContent(memory.content) # {}) =>
                   /\ store_pc'[p].pc = "bump"
                   /\ store_pc'[p].existing \in ActiveWithContent(memory.content)
                   /\ rows' = rows
                   /\ nextId' = nextId
          /\ (StoreBump(p) /\ Exists(store_pc[p].existing)) =>
                LET id == store_pc[p].existing IN
                /\ ret' = [ op |-> "store", val |-> id ]
                /\ DOMAIN rows' = DOMAIN rows
                /\ nextId' = nextId
                /\ rows'[id].access_count = rows[id].access_count + 1
                /\ rows'[id].last_accessed_at = now
                /\ \A f \in KeptOnDuplicate : rows'[id][f] = rows[id][f]
                /\ \A other \in DOMAIN rows \ {id} : rows'[other] = rows[other]
      ]_vars

\* a rated memory flagged for deletion is stored again on a later day: the
\* call returns its id, one access is counted, the flag and the rating stay
C6_Witness ==
    \E id \in DOMAIN rows :
       /\ ret = [ op |-> "store", val |-> id ]
       /\ store_pc["s1"].pc = "idle"
       /\ rows[id].access_count = 1
       /\ rows[id].last_accessed_at = now
       /\ now > rows[id].created_at
       /\ rows[id].marked_for_deletion
       /\ rows[id].user_score_adjustment = -3
       /\ rows[id].final_importance_score = 10
       /\ Cardinality(DOMAIN rows) = 1

\* C7: a memory becomes archived only from marked, and only when it was
\* marked at least 14 days before; it is deleted only from archived, and
\* only when it was archived at least 30 days before.  The archive sweep
\* leaves a memory marked 13 days ago and archives one marked 14 or more
\* days ago; the delete sweep leaves a memory archived 29 days ago and
\* deletes one (rated -3) archived 30 or more days ago.
C7_LifecycleOrder ==
    [][ \A id \in DOMAIN rows :
          /\ (~ rows[id].archived /\ id \in DOMAIN rows' /\ rows'[id].archived) =>
                /\ rows[id].marked_for_deletion
                /\ rows[id].marked_for_deletion_at # NULL
                /\ now - rows[id].marked_for_deletion_at >= 14
          /\ id \notin DOMAIN rows' =>
                /\ rows[id].archived
                /\ rows[id].archived_at # NULL
                /\ now - rows[id].archived_at >= 30
          /\ (/\ ArchiveMarkedMemories
              /\ rows[id].marked_for_deletion
              /\ rows[id].marked_for_deletion_at # NULL
              /\ ~ rows[id].archived) =>
                /\ id \in DOMAIN rows'
                /\ rows'[id].archived <=> now - rows[id].marked_for_deletion_at >= 14
                /\ rows'[id].archived =>
                      (rows'[id].archived_at = now /\ ~ rows'[id].is_active)
          /\ (/\ PermanentlyDeleteArchived
              /\ rows[id].archived
              /\ rows[id].archived_at # NULL
              /\ rows[id].user_score_adjustment = -3) =>
                (id \notin DOMAIN rows' <=> now - rows[id].archived_at >= 30)
      ]_vars

\* the delete sweep has just removed the memory on day 104: it was created
\* on day 0, so it was marked on day 60, archived on day 74 (14 days later)
\* and deleted 30 days after that
C7_Witness ==
    /\ ret = [ op |-> "delete", val |-> 1 ]
    /\ now = 104
    /\ nextId = 2
    /\ rows = << >>

\* C8: the mark sweep flags a memory if and only if it is active,
\* user-rated with adjustment -3, has fewer than 3 accesses, was last
\* accessed (or, never accessed, created) at least 60 days ago, was created
\* at least 30 days ago, is not marked yet, and has an effective score of
\* at most 2.0; it returns exactly the ids it flagged.
C8_MarkCriteria ==
    [][ MarkMemoriesForDeletion =>
          /\ DOMAIN rows' = DOMAIN rows
          /\ \A id \in DOMAIN rows :
                LET last == IF rows[id].last_accessed_at # NULL
                            THEN rows[id].last_accessed_at
                            ELSE rows[id].created_at
                    meets ==
                       /\ rows[id].is_active
                       /\ rows[id].user_rated
                       /\ rows[id].user_score_adjustment = -3
                       /\ rows[id].access_count < 3
                       /\ now - last >= 60
                       /\ now - rows[id].created_at >= 30
                       /\ ~ rows[id].marked_for_deletion
                       /\ CalculateEffectiveScore(rows[id], now).score <= 2 * EffUnit
                IN /\ (rows'[id].marked_for_deletion /\ ~ rows[id].marked_for_deletion)
                         <=> meets
                   /\ meets => rows'[id].marked_for_deletion_at = now
                   /\ id \in ret'.val <=> meets
                   /\ ~ meets => rows'[id] = rows[id]
          /\ ret'.op = "mark"
          /\ ret'.val \subseteq DOMAIN rows
      ]_vars

\* a memory of base score 5.3 rated -3 and accessed once has just been
\* flagged: with one access its score is over 2.0 until day 64, so it is
\* the decay of the days after that that brought it under the threshold
C8_Witness ==
    \E id \in DOMAIN rows :
       /\ ret = [ op |-> "mark", val |-> {id} ]
       /\ rows[id].marked_for_deletion
       /\ rows[id].marked_for_deletion_at = now
       /\ rows[id].base_importance_score = 53
       /\ rows[id].access_count = 1
       /\ rows[id].user_score_adjustment = -3

\* C9: rescue_memory on an archived memory returns it to active.
C9_RescueRestoresArchived ==
    [][ \A id \in Ids :
          (RescueMemory(id) /\ Exists(id) /\ rows[id].archived) =>
             (rows'[id].is_active /\ ~ rows'[id].archived)
      ]_vars

\* C10: rescue_memory on a marked, not archived memory clears the mark, its
\* date and its reason, sets the adjustment to 0 and stamps user_rated_at.
\* No step archives a memory that is not marked, no step marks a memory
\* whose adjustment is not -3, and only the write of a rating of -3 takes
\* an adjustment to -3: a rescued memory is neither archived nor marked
\* again unless it is rated -3 again.
C10_RescueClearsMark ==
    [][ \A id \in DOMAIN rows :
          /\ (RescueMemory(id) /\ rows[id].marked_for_deletion /\ ~ rows[id].archived) =>
                /\ ~ rows'[id].marked_for_deletion
                /\ rows'[id].marked_for_deletion_at = NULL
                /\ rows'[id].deletion_reason = "NULL"
                /\ rows'[id].user_score_adjustment = 0
                /\ rows'[id].user_rated_at = now
                /\ ~ rows'[id].archived
          /\ id \in DOMAIN rows' =>
                /\ (~ rows[id].archived /\ rows'[id].archived) =>
                      rows[id].marked_for_deletion
                /\ (~ rows[id].marked_for_deletion /\ rows'[id].marked_for_deletion) =>
                      (rows[id].user_rated /\ rows[id].user_score_adjustment = -3)
                /\ (rows[id].user_score_adjustment # -3
                      /\ rows'[id].user_score_adjustment = -3) =>
                      \E p \in RateCalls :
                         /\ RateWrite(p)
                         /\ rate_pc[p].memory_id = id
                         /\ rate_pc[p].adjustment = -3
      ]_vars

\* a memory has been rescued, 14 days or more have passed since, and the
\* archive and mark sweeps have run over it: it is still active, unmarked
\* and unarchived, with the adjustment 0 of the rescue
C10_Witness ==
    \E id \in DOMAIN rows :
       /\ ret = [ op |-> "mark", val |-> {} ]
       /\ rows[id].user_rated
       /\ rows[id].user_score_adjustment = 0
       /\ rows[id].user_rated_at # NULL
       /\ rows[id].user_rated_at >= 60
       /\ now - rows[id].user_rated_at >= 14
       /\ rows[id].is_active
       /\ ~ rows[id].marked_for_deletion
       /\ rows[id].marked_for_deletion_at = NULL
       /\ ~ rows[id].archived

\* C11: the permanent-delete sweep removes exactly the memories that are
\* archived, archived at least 30 days ago and at adjustment -3 when it
\* runs, leaves every other memory as it was and returns their number; no
\* step removes a memory whose adjustment is not -3.
C11_DeleteExactly ==
    [][ /\ PermanentlyDeleteArchived =>
             /\ \A id \in DOMAIN rows :
                   /\ id \notin DOMAIN rows' <=>
                         /\ rows[id].archived
                         /\ rows[id].archived_at # NULL
                         /\ now - rows[id].archived_at >= 30
                         /\ rows[id].user_score_adjustment = -3
                   /\ id \in DOMAIN rows' => rows'[id] = rows[id]
             /\ DOMAIN rows' \subseteq DOMAIN rows
             /\ ret' = [ op |-> "delete",
                         val |-> Cardinality(DOMAIN rows \ DOMAIN rows') ]
        /\ \A id \in DOMAIN rows :
              id \notin DOMAIN rows' => rows[id].user_score_adjustment = -3
      ]_vars

\* the delete sweep has just run and removed nothing, over a memory
\* archived 30 days ago or more whose adjustment a rating or a rescue has
\* taken away from -3
C11_Witness ==
    /\ ret = [ op |-> "delete", val |-> 0 ]
    /\ \E id \in DOMAIN rows :
          /\ rows[id].archived
          /\ rows[id].archived_at # NULL
          /\ now - rows[id].archived_at >= 30
          /\ rows[id].user_score_adjustment # -3

\* C14: each sweep leaves nothing for a second run of itself at the same
\* clock: after a mark, archive or delete sweep the set the sweep works on
\* is empty, and a sweep run over an empty set leaves the table as it is
\* and reports no memory.
C14_SweepsIdempotent ==
    [][ /\ MarkMemoriesForDeletion =>
             /\ DeletionBatch' = {}
             /\ DeletionBatch = {} => (rows' = rows /\ ret' = [ op |-> "mark", val |-> {} ])
        /\ ArchiveMarkedMemories =>
             /\ ToArchive' = {}
             /\ ToArchive = {} => (rows' = rows /\ ret' = [ op |-> "archive", val |-> 0 ])
        /\ PermanentlyDeleteArchived =>
             /\ ToDelete' = {}
             /\ ToDelete = {} => (rows' = rows /\ ret' = [ op |-> "delete", val |-> 0 ])
      ]_vars

\* the archive sweep has run a second time on the day it archived a
\* memory, and reports none
C14_Witness ==
    /\ ret = [ op |-> "archive", val |-> 0 ]
    /\ \E id \in DOMAIN rows :
          /\ rows[id].archived
          /\ rows[id].archived_at = now
          /\ rows[id].marked_for_deletion
          /\ now - rows[id].marked_for_deletion_at >= 14

\* an id that was handed out and whose row has been permanently deleted
Deleted(id) == id < nextId /\ id \notin DOMAIN rows

\* C12: permanent deletion is irreversible: once a memory is deleted no
\* step makes a row with its id again, rescue_memory on its id leaves the
\* table as it is, and rate_memory on its id returns false and leaves the
\* table as it is.
C12_DeletionIrreversible ==
    [][ \A id \in Ids :
          Deleted(id) =>
             /\ id \notin DOMAIN rows'
             /\ RescueMemory(id) => rows' = rows
             /\ \A p \in RateCalls, a \in LifeAdjInputs :
                   RateRead(p, id, a) =>
                      /\ rows' = rows
                      /\ rate_pc'[p].pc = "idle"
                      /\ ret' = [ op |-> "rate", val |-> FALSE ]
      ]_vars

\* the first memory has been deleted, a later store has made a memory
\* under a new id, and a rating has just returned false: the rating of the
\* deleted id, since the other id has its row
C12_Witness ==
    /\ Deleted(1)
    /\ 2 \in DOMAIN rows
    /\ nextId = 3
    /\ ret = [ op |-> "rate", val |-> FALSE ]

\* an active memory created 65 days ago, accessed once, 61 days ago, and
\* rated -3
ScenarioRow(id) ==
    /\ Exists(id)
    /\ rows[id].is_active
    /\ ~ rows[id].marked_for_deletion
    /\ rows[id].user_rated
    /\ rows[id].user_score_adjustment = -3
    /\ now - rows[id].created_at = 65
    /\ rows[id].access_count = 1
    /\ rows[id].last_accessed_at # NULL
    /\ now - rows[id].last_accessed_at = 61

\* C13, for every base score: the mark sweep flags every memory created
\* 65 days ago, accessed once 61 days ago and rated -3.
C13_ScenarioAlwaysFlagged ==
    [][ \A id \in Ids :
          (MarkMemoriesForDeletion /\ ScenarioRow(id)) =>
             rows'[id].marked_for_deletion
      ]_vars

\* C13, amended: the mark sweep flags a memory created 65 days ago,
\* accessed once 61 days ago and rated -3 when its base score (the judge
\* score if it has one, else the rule-based score) is at most 5.2; an
\* archive sweep 15 days after the mark sets archived and clears is_active;
\* a delete sweep 31 days after that removes the memory; and under repeated
\* sweeps with an advancing clock a memory flagged so is in the end deleted,
\* unless it is rescued or rated again.
C13_PruningScenario ==
    /\ [][ \A id \in Ids :
             /\ (/\ MarkMemoriesForDeletion
                 /\ ScenarioRow(id)
                 /\ EffectiveBase(rows[id]) <= 52) =>
                   /\ rows'[id].marked_for_deletion
                   /\ rows'[id].marked_for_deletion_at = now
                   /\ id \in ret'.val
             /\ (/\ ArchiveMarkedMemories
                 /\ Exists(id)
                 /\ rows[id].marked_for_deletion
                 /\ rows[id].marked_for_deletion_at # NULL
                 /\ ~ rows[id].archived
                 /\ now - rows[id].marked_for_deletion_at = 15) =>
                   /\ rows'[id].archived
                   /\ ~ rows'[id].is_active
             /\ (/\ PermanentlyDeleteArchived
                 /\ Exists(id)
                 /\ rows[id].archived
                 /\ rows[id].archived_at # NULL
                 /\ rows[id].user_score_adjustment = -3
                 /\ now - rows[id].archived_at = 31) =>
                   id \notin DOMAIN rows'
         ]_vars
    /\ \A id \in Ids :
          (/\ Exists(id)
           /\ rows[id].marked_for_deletion
           /\ rows[id].marked_for_deletion_at # NULL
           /\ rows[id].marked_for_deletion_at - rows[id].created_at = 65
           /\ rows[id].user_score_adjustment = -3)
          ~> (\/ ~ Exists(id)
              \/ ~ rows[id].marked_for_deletion
              \/ rows[id].user_score_adjustment # -3)

\* the memory of the scenario, flagged at 65 days and archived 15 days
\* later, inactive, still rated -3 and due for the delete sweep
C13_Witness ==
    \E id \in DOMAIN rows :
       /\ rows[id].archived
       /\ ~ rows[id].is_active
       /\ rows[id].marked_for_deletion
       /\ rows[id].marked_for_deletion_at # NULL
       /\ rows[id].marked_for_deletion_at - rows[id].created_at = 65
       /\ rows[id].archived_at - rows[id].marked_for_deletion_at = 15
       /\ rows[id].access_count = 1
       /\ rows[id].marked_for_deletion_at - rows[id].last_accessed_at = 61
       /\ rows[id].user_score_adjustment = -3
       /\ now - rows[id].archived_at = 31

\* C15: no memory is scored by the judge twice: no turn of a batch sends
\* to the judge a memory that already has llm_processed set, and no step
\* writes the judge score of such a memory again.
C15_ScoredOnce ==
    [][ /\ \A b \in BatchCalls, outcome \in JudgeOutcomes :
             (BatchItem(b, outcome) /\ outcome.kind # "error") =>
                LET id == Head(batch_pc[b].memories).id IN
                Exists(id) => ~ rows[id].llm_processed
        /\ \A id \in DOMAIN rows :
             (rows[id].llm_processed /\ id \in DOMAIN rows') =>
                rows'[id].llm_importance_score = rows[id].llm_importance_score
      ]_vars

Unavailable == [ kind |-> "unavailable", value |-> 0 ]

\* C16: when the judge is unavailable for a memory the batch skips it: the
\* memory keeps llm_processed = false, its judge score, its final score and
\* its source, and is still eligible for the next run.
C16_UnavailableSkips ==
    [][ \A b \in BatchCalls :
          BatchItem(b, Unavailable) =>
             LET id == Head(batch_pc[b].memories).id IN
             (Exists(id) /\ ~ rows[id].llm_processed) =>
                /\ ~ rows'[id].llm_processed
                /\ rows'[id].llm_importance_score = rows[id].llm_importance_score
                /\ rows'[id].final_importance_score = rows[id].final_importance_score
                /\ rows'[id].score_source = rows[id].score_source
      ]_vars

\* C17: when the judge call fails entirely every rule-scored memory keeps
\* its final score, whether it came from a conversation or a journal entry.
C17_FallbackKeepsScore ==
    [][ \A b \in BatchCalls :
          BatchItem(b, Unavailable) =>
             LET id == Head(batch_pc[b].memories).id IN
             (Exists(id) /\ rows[id].score_source = "rule") =>
                rows'[id].final_importance_score = rows[id].final_importance_score
      ]_vars

\* C18: a run of the batch with size n that finds eligible memories selects
\* at most n of them, each active, not scored by the judge and not rated,
\* in ascending order of created_at, and leaves no eligible memory out that
\* is older than one it selected; a run that finds none returns 0 and
\* writes nothing.
C18_SelectsOldestEligible ==
    [][ \A b \in BatchCalls, n \in 1..MaxBatch :
          BatchSelect(b, n) =>
             LET eligible == { id \in DOMAIN rows :
                                 /\ rows[id].is_active
                                 /\ ~ rows[id].llm_processed
                                 /\ ~ rows[id].user_rated }
             IN
             /\ rows' = rows
             /\ eligible = {} =>
                   /\ batch_pc'[b].pc = "idle"
                   /\ ret' = [ op |-> "batch", val |-> 0 ]
             /\ eligible # {} =>
                   LET q == batch_pc'[b].memories
                       chosen == { q[i].id : i \in DOMAIN q }
                   IN
                   /\ batch_pc'[b].pc = "items"
                   /\ Len(q) >= 1
                   /\ Len(q) <= n
                   /\ chosen \subseteq eligible
                   /\ Cardinality(chosen) = Len(q)
                   /\ \A i, j \in DOMAIN q :
                         i < j => rows[q[i].id].created_at <= rows[q[j].id].created_at
                   /\ \A e \in eligible \ chosen, c \in chosen :
                         rows[c].created_at <= rows[e].created_at
                   /\ Cardinality(eligible) >= n => Len(q) = n
      ]_vars

\* a batch of size 1 has selected the older of two eligible memories and
\* left the one created a day later
C18_Witness ==
    /\ batch_pc["b1"].pc = "items"
    /\ Len(batch_pc["b1"].memories) = 1
    /\ \E old, new \in DOMAIN rows :
          /\ batch_pc["b1"].memories[1].id = old
          /\ rows[old].created_at < rows[new].created_at
          /\ rows[new].is_active
          /\ ~ rows[new].llm_processed
          /\ ~ rows[new].user_rated

\* C19: for a judge response the batch writes as judge score the first
\* number of the response clamped to [1, 10], or 5.0 when the response
\* holds no number; the memory, if it is still unrated at the write, gets
\* llm_processed, the source 'llm' and a final score equal to the judge
\* score written.
C19_JudgeScoreWritten ==
    [][ \A b \in BatchCalls, outcome \in JudgeOutcomes :
          (BatchItem(b, outcome) /\ outcome.kind \in {"number", "nonumber"}) =>
             LET id == Head(batch_pc[b].memories).id
                 v == outcome.value
                 expected == IF outcome.kind = "nonumber" THEN 50
                             ELSE IF v < 10 THEN 10
                             ELSE IF v > 100 THEN 100 ELSE v
             IN (Exists(id) /\ ~ rows[id].user_rated) =>
                   /\ rows'[id].llm_importance_score = expected
                   /\ rows'[id].final_importance_score = expected
                   /\ rows'[id].llm_processed
                   /\ rows'[id].score_source = "llm"
      ]_vars

\* one memory holds the default 5.0 of a response without a number and
\* another the 10.0 of a response of 15, each as judge score and final
\* score, scored and with the source 'llm'
C19_Witness ==
    /\ \E id \in DOMAIN rows :
          /\ rows[id].llm_importance_score = 50
          /\ rows[id].final_importance_score = 50
          /\ rows[id].llm_processed
          /\ rows[id].score_source = "llm"
    /\ \E id \in DOMAIN rows :
          /\ rows[id].llm_importance_score = 100
          /\ rows[id].final_importance_score = 100
          /\ rows[id].llm_processed
          /\ rows[id].score_source = "llm"

SourceRank(source) ==
    CASE source = "rule" -> 1
      [] source = "llm" -> 2
      [] source = "user_modified" -> 3
      [] OTHER -> 0

Position(q, id) ==
    IF \E i \in DOMAIN q : q[i] = id
    THEN CHOOSE i \in DOMAIN q : q[i] = id
    ELSE 0

\* C21: a semantic retrieve ranks by the current final score: of two active
\* memories with embeddings and equal similarity to the query, the one with
\* the lower final_importance_score is returned only behind the other.
C21_RanksByFinalScore ==
    [][ \A sim \in [RetrieveContents -> SimValues], limit \in RetrieveLimits :
          ( /\ AllIdle /\ embedding_model
            /\ ret'.op = "retrieve"
            /\ RetrieveRelevantMemories(sim, limit, TRUE) ) =>
             \A a, b \in Active :
                ( /\ rows[a].embedding /\ rows[b].embedding
                  /\ sim[rows[a].content] = sim[rows[b].content]
                  /\ rows[a].final_importance_score > rows[b].final_importance_score
                  /\ Position(ret'.val, b) > 0 )
                => ( /\ Position(ret'.val, a) > 0
                     /\ Position(ret'.val, a) < Position(ret'.val, b) )
      ]_vars

\* a call of retrieve_relevant_memories with this limit, made while no
\* other call is under way
RetrieveStep(limit) ==
    /\ AllIdle
    /\ ret'.op = "retrieve"
    /\ \E sim \in [RetrieveContents -> SimValues], searchOk \in BOOLEAN :
          RetrieveRelevantMemories(sim, limit, searchOk)

\* C22: a memory stored without a vector, because the embedding of its
\* content failed, is returned by every retrieve whose limit is at least
\* the number of active memories.
C22_UnembeddedRetrievable ==
    [][ \A limit \in RetrieveLimits :
          (RetrieveStep(limit) /\ limit >= Cardinality(Active)) =>
             \A id \in Active :
                ~ rows[id].embedding => Position(ret'.val, id) > 0
      ]_vars

\* C23: a retrieve returns at most limit memories, each once and each
\* active; it adds 1 to access_count and sets last_accessed_at to the time
\* of the call for the memories it returns, and changes nothing else in
\* the table.
C23_RetrieveFrame ==
    [][ \A limit \in RetrieveLimits :
          RetrieveStep(limit) =>
             LET memories == ret'.val
                 returned == Range(memories)
             IN
             /\ Len(memories) <= limit
             /\ Cardinality(returned) = Len(memories)
             /\ returned \subseteq Active
             /\ DOMAIN rows' = DOMAIN rows
             /\ \A id \in returned :
                   /\ rows'[id].access_count = rows[id].access_count + 1
                   /\ rows'[id].last_accessed_at = now
                   /\ rows'[id] = [ rows[id] EXCEPT
                                      !.access_count = rows'[id].access_count,
                                      !.last_accessed_at = rows'[id].last_accessed_at ]
             /\ \A id \in DOMAIN rows \ returned : rows'[id] = rows[id]
      ]_vars

\* a retrieve with limit 1 has returned one of two active memories: that
\* one has an access and the other has none
C23_Witness ==
    /\ ret.op = "retrieve"
    /\ Len(ret.val) = 1
    /\ \E id, other \in Active :
          /\ ret.val[1] = id
          /\ rows[id].access_count = 1
          /\ rows[id].last_accessed_at = now
          /\ other # id
          /\ rows[other].access_count = 0
          /\ rows[other].last_accessed_at = NULL

Inactive == { id \in DOMAIN rows : ~ rows[id].is_active }

\* C24: a memory that is inactive, archived or soft-deleted, is not among
\* the memories a retrieve or get_unrated_memories returns, is not counted
\* in the total, the counts by type or the most accessed of the summary,
\* is not selected by the batch processor and is not flagged by the
\* marking sweep.
C24_InactiveInvisible ==
    [][ /\ \A limit \in RetrieveLimits :
             (rows' # rows /\ RetrieveStep(limit)) =>
                Range(ret'.val) \cap Inactive = {}
        /\ \A limit \in RetrieveLimits :
             (AllIdle /\ ret'.op = "unrated" /\ GetUnratedMemories(limit)) =>
                \A i \in DOMAIN ret'.val : ret'.val[i].id \notin Inactive
        /\ (AllIdle /\ ret'.op = "summary" /\ GetMemorySummary) =>
                LET summary == ret'.val IN
                /\ summary.total_memories = Cardinality(DOMAIN rows \ Inactive)
                /\ \A t \in DOMAIN summary.by_type :
                      summary.by_type[t] =
                         Cardinality({ id \in DOMAIN rows \ Inactive :
                                         rows[id].memory_type = t })
                /\ Range(summary.most_accessed) \cap Inactive = {}
        /\ \A n \in 1..MaxBatch :
             (AllIdle /\ batch_pc'["b1"].pc = "items" /\ BatchSelect("b1", n)) =>
                \A i \in DOMAIN batch_pc'["b1"].memories :
                   batch_pc'["b1"].memories[i].id \notin Inactive
        /\ (AllIdle /\ ret'.op = "mark" /\ MarkMemoriesForDeletion) =>
                \A id \in Inactive :
                   rows'[id].marked_for_deletion = rows[id].marked_for_deletion
      ]_vars

\* the summary has counted one memory of a table that holds an active
\* memory next to one that the archive sweep archived
C24_Witness ==
    /\ ret.op = "summary"
    /\ ret.val.total_memories = 1
    /\ ret.val.by_type = [ t \in {"preference"} |-> 1 ]
    /\ \E id, other \in DOMAIN rows :
          /\ rows[id].archived
          /\ ~ rows[id].is_active
          /\ rows[other].is_active
          /\ ret.val.most_accessed = << other >>

\* the whole days since the date the decay is counted from
DaysInactive == now - LastRelevantDate(rows[1])

\* C25: the recency decay is 0 up to 7 days since the reference date, then
\* -(d - 7)/70 up to 216 days and -3.0 from 217 days on; it never rises
\* from one day to the next and is never below -3.0.
C25_RecencyDecay ==
    /\ [](ret.op = "decay" =>
            LET d == DaysInactive IN
            /\ d <= 7 => ret.val = 0
            /\ (7 < d /\ d < 217) => ret.val * 70 = - (d - 7) * EffUnit
            /\ d >= 217 => ret.val = - 3 * EffUnit
            /\ ret.val >= - 3 * EffUnit)
    /\ [][ ScoreTick =>
             CalculateRecencyDecay(rows[1], now') <= CalculateRecencyDecay(rows[1], now)
         ]_vars

\* the decay of a memory 217 days after its reference date is -3.0
C25_Witness ==
    /\ ret.op = "decay"
    /\ DaysInactive = 217
    /\ ret.val = - 3 * EffUnit

\* C26: the effective score is base + user_score_adjustment + D' + B'
\* clamped to [1, 10], with base the judge score when there is one and the
\* rule-based score otherwise, and (D', B') the decay and the boost for an
\* unrated memory and half the decay and 1.5 times the boost for a rated
\* one; the breakdown holds these four terms.
C26_EffectiveScore ==
    ret.op = "effective" =>
       LET memory == rows[1]
           base == (IF memory.llm_importance_score # NULL
                    THEN memory.llm_importance_score
                    ELSE memory.base_importance_score) * (EffUnit \div 10)
           adj == memory.user_score_adjustment * EffUnit
           D == CalculateRecencyDecay(memory, now)
           B == CalculateFrequencyBoost(memory, now)
           sum == IF memory.user_rated
                  THEN 2 * base + 2 * adj + D + 3 * B
                  ELSE 2 * (base + adj + D + B)
       IN
       /\ ret.val.breakdown.base = base
       /\ ret.val.breakdown.user_adjustment = adj
       /\ 2 * ret.val.breakdown.recency_decay = (IF memory.user_rated THEN D ELSE 2 * D)
       /\ 2 * ret.val.breakdown.frequency_boost = (IF memory.user_rated THEN 3 * B ELSE 2 * B)
       /\ ret.val.score >= EffUnit
       /\ ret.val.score <= 10 * EffUnit
       /\ sum < 2 * EffUnit => ret.val.score = EffUnit
       /\ sum > 20 * EffUnit => ret.val.score = 10 * EffUnit
       /\ (2 * EffUnit <= sum /\ sum <= 20 * EffUnit) => 2 * ret.val.score = sum

\* the score of a rated memory with a judge score, a decay and a boost,
\* neither of the two zero and the sum inside [1, 10]
C26_Witness ==
    /\ ret.op = "effective"
    /\ rows[1].user_rated
    /\ rows[1].llm_importance_score # NULL
    /\ ret.val.breakdown.recency_decay < 0
    /\ ret.val.breakdown.frequency_boost > 0
    /\ ret.val.score > EffUnit
    /\ ret.val.score < 10 * EffUnit

\* the later of last_accessed_at and created_at
LaterDate(memory) ==
    IF memory.last_accessed_at # NULL
    THEN Max(memory.last_accessed_at, memory.created_at)
    ELSE memory.created_at

TypeScore(memory_type) ==
    CASE memory_type \in {"factual", "preference"} -> 40
      [] memory_type = "relational" -> 35
      [] memory_type = "behavioral" -> 30
      [] OTHER -> 25

\* C28: a memory that still has its rule-based score has a base score equal
\* to its final score, fixed by its type and within [2, 5]; the memory of
\* "i prefer tea over coffee" is a preference with a score in [3.5, 4.0],
\* from a conversation as from a journal entry.
C28_RuleScoreByType ==
    \A id \in DOMAIN rows :
       rows[id].score_source = "rule" =>
          /\ rows[id].base_importance_score = rows[id].final_importance_score
          /\ rows[id].base_importance_score = TypeScore(rows[id].memory_type)
          /\ rows[id].base_importance_score >= 20
          /\ rows[id].base_importance_score <= 50
          /\ rows[id].content = <<"i", "prefer", "tea", "over", "coffee">> =>
                /\ rows[id].memory_type = "preference"
                /\ rows[id].base_importance_score >= 35
                /\ rows[id].base_importance_score <= 40

\* C29: the final score of a rated memory is its judge score, or its
\* rule-based score when it has none, plus the adjustment, clamped to
\* [1, 10]; the final score of an unrated memory the judge has scored is
\* its judge score.
C29_FinalScoreConsistent ==
    \A id \in DOMAIN rows :
       /\ rows[id].user_rated =>
             rows[id].final_importance_score =
                Clamp((IF rows[id].llm_importance_score # NULL
                       THEN rows[id].llm_importance_score
                       ELSE rows[id].base_importance_score)
                         + rows[id].user_score_adjustment * 10,
                      MinScore, MaxScore)
       /\ (~ rows[id].user_rated /\ rows[id].llm_processed) =>
             rows[id].final_importance_score = rows[id].llm_importance_score

\* C30: no memory is archived without being marked for deletion.
C30_ArchivedIsMarked ==
    \A id \in DOMAIN rows : rows[id].archived => rows[id].marked_for_deletion

\* C31: in every state a memory is marked for deletion exactly when its
\* marked_for_deletion_at is set and exactly when its deletion_reason is
\* set, the reason being the fixed string; an archived memory has its
\* archived_at set and is not active.
C31_FlagsAllOrNothing ==
    \A id \in DOMAIN rows :
       /\ rows[id].marked_for_deletion <=> rows[id].marked_for_deletion_at # NULL
       /\ rows[id].marked_for_deletion <=> rows[id].deletion_reason # "NULL"
       /\ rows[id].marked_for_deletion => rows[id].deletion_reason = DeletionReason
       /\ rows[id].archived =>
             (rows[id].archived_at # NULL /\ ~ rows[id].is_active)

\* the archive sweep has just archived a marked memory: the three mark
\* fields and the three archive fields are all set
C31_Witness ==
    \E id \in DOMAIN rows :
       /\ ret = [ op |-> "archive", val |-> 1 ]
       /\ rows[id].marked_for_deletion
       /\ rows[id].marked_for_deletion_at # NULL
       /\ rows[id].deletion_reason = DeletionReason
       /\ rows[id].archived
       /\ rows[id].archived_at = now
       /\ ~ rows[id].is_active

\* C32: the adjustment of every memory is an integer in [-3, 3] in every
\* state.  rate_memory clamps the adjustment it is given (5 becomes 3, -7
\* becomes -3) and writes the clamped value; the only other step that
\* changes the adjustment of a memory is rescue_memory, which writes 0.
C32_AdjustmentInRange ==
    /\ [](\A id \in DOMAIN rows :
            rows[id].user_score_adjustment \in MinAdjustment..MaxAdjustment)
    /\ [][ /\ \A p \in RateCalls :
                rate_pc'[p].pc = "write" =>
                   \A id \in Ids, a \in AdjInputs :
                      RateRead(p, id, a) =>
                         /\ a = 5 => rate_pc'[p].adjustment = 3
                         /\ a = -7 => rate_pc'[p].adjustment = -3
                         /\ a \in -3..3 => rate_pc'[p].adjustment = a
           /\ \A p \in RateCalls :
                (rate_pc[p].pc = "write" /\ RateWrite(p)) =>
                   LET id == rate_pc[p].memory_id IN
                   Exists(id) =>
                      rows'[id].user_score_adjustment = rate_pc[p].adjustment
           /\ \A id \in DOMAIN rows \cap DOMAIN rows' :
                rows'[id].user_score_adjustment # rows[id].user_score_adjustment =>
                   \/ \E p \in RateCalls :
                         /\ rate_pc[p].pc = "write"
                         /\ rate_pc[p].memory_id = id
                         /\ RateWrite(p)
                   \/ /\ rows'[id].user_score_adjustment = 0
                      /\ RescueMemory(id)
         ]_vars

\* a rating given as 5 has been written: the memory holds the adjustment 3
C32_Witness ==
    \E id \in DOMAIN rows :
       /\ ret = [ op |-> "rate", val |-> TRUE ]
       /\ rows[id].user_rated
       /\ rows[id].user_score_adjustment = 3

\* the columns of a memory that hold its text, its scores and its accesses
ScoreColumns ==
    { "content", "base_importance_score", "llm_importance_score",
      "user_score_adjustment", "final_importance_score", "score_source",
      "user_rated", "llm_processed", "access_count", "last_accessed_at" }

\* the columns of a memory that hold its place in the lifecycle
FlagColumns == { "marked_for_deletion", "archived", "is_active" }

\* C33: the mark, archive and delete sweeps leave the text, the scores and
\* the access columns of every memory they do not remove as they were; the
\* steps of rate_memory and of the batch leave marked_for_deletion, archived
\* and is_active of every memory as they were; no step changes the content
\* or the base score of a memory that exists.
C33_DisjointColumns ==
    [][ rows' # rows =>
          \A id \in DOMAIN rows \cap DOMAIN rows' :
             /\ rows'[id].content = rows[id].content
             /\ rows'[id].base_importance_score = rows[id].base_importance_score
             /\ (/\ ret'.op \in {"mark", "archive", "delete"}
                 /\ \/ MarkMemoriesForDeletion
                    \/ ArchiveMarkedMemories
                    \/ PermanentlyDeleteArchived) =>
                   \A f \in ScoreColumns : rows'[id][f] = rows[id][f]
             /\ (\/ \E p \in RateCalls : rate_pc'[p] # rate_pc[p]
                 \/ \E b \in BatchCalls : batch_pc'[b] # batch_pc[b]) =>
                   \A f \in FlagColumns : rows'[id][f] = rows[id][f]
      ]_vars

\* the archive sweep has archived a memory that the batch had scored and
\* the user had rated -3: it still holds the score, the rating and the
\* source they wrote
C33_Witness ==
    \E id \in DOMAIN rows :
       /\ ret = [ op |-> "archive", val |-> 1 ]
       /\ rows[id].archived
       /\ rows[id].llm_processed
       /\ rows[id].llm_importance_score = 40
       /\ rows[id].user_rated
       /\ rows[id].user_score_adjustment = -3
       /\ rows[id].final_importance_score = 10
       /\ rows[id].score_source = "user_modified"

\* C34: the count of a run of the batch grows by one at a turn of the loop
\* exactly when that turn writes the judge score of its memory, so that the
\* count the run returns is the number of memories it wrote; a memory rated
\* between the selection and the write is not written and not counted.
C34_CountIsWritten ==
    [][ \A b \in BatchCalls :
          batch_pc[b].pc = "items" =>
             \A outcome \in JudgeOutcomes :
                BatchItem(b, outcome) =>
                   LET id == Head(batch_pc[b].memories).id
                       before == batch_pc[b].processed_count
                       after == IF batch_pc'[b].pc = "items"
                                THEN batch_pc'[b].processed_count
                                ELSE ret'.val
                       written == Exists(id) /\ rows'[id] # rows[id]
                   IN  after = before + (IF written THEN 1 ELSE 0)
      ]_vars

\* C35: the write of a rating leaves the mark, its date and its reason as
\* they were; the archive sweep archives and deactivates every marked,
\* unarchived memory whose mark is 14 days old or older, whatever its
\* adjustment; no step removes a memory whose adjustment is not -3; and
\* under repeated sweeps a marked memory rated above -3 whose mark is 14
\* days old is in the end archived, unless it is rescued first.
C35_RatingKeepsMark ==
    /\ [][ /\ \A p \in RateCalls :
                (rate_pc[p].pc = "write" /\ RateWrite(p)) =>
                   LET id == rate_pc[p].memory_id IN
                   Exists(id) =>
                      /\ rows'[id].marked_for_deletion = rows[id].marked_for_deletion
                      /\ rows'[id].marked_for_deletion_at = rows[id].marked_for_deletion_at
                      /\ rows'[id].deletion_reason = rows[id].deletion_reason
           /\ (ret'.op = "archive" /\ ArchiveMarkedMemories) =>
                \A id \in DOMAIN rows :
                   (/\ rows[id].marked_for_deletion
                    /\ rows[id].marked_for_deletion_at # NULL
                    /\ ~ rows[id].archived
                    /\ now - rows[id].marked_for_deletion_at >= ArchiveDays) =>
                      /\ rows'[id].archived
                      /\ ~ rows'[id].is_active
           /\ \A id \in DOMAIN rows \ DOMAIN rows' :
                rows[id].user_score_adjustment = -3
         ]_vars
    /\ \A id \in Ids :
          (/\ Exists(id)
           /\ rows[id].marked_for_deletion
           /\ rows[id].marked_for_deletion_at # NULL
           /\ now - rows[id].marked_for_deletion_at >= ArchiveDays
           /\ rows[id].user_score_adjustment # -3)
          ~> (/\ Exists(id)
              /\ \/ rows[id].archived /\ ~ rows[id].is_active
                 \/ ~ rows[id].marked_for_deletion)

\* a memory marked on one day and rated -1 on a later day was archived all
\* the same; 30 days later the delete sweep has run and has left it
C35_Witness ==
    \E id \in DOMAIN rows :
       /\ ret = [ op |-> "delete", val |-> 0 ]
       /\ rows[id].marked_for_deletion
       /\ rows[id].marked_for_deletion_at # NULL
       /\ rows[id].user_rated_at > rows[id].marked_for_deletion_at
       /\ rows[id].user_score_adjustment = -1
       /\ rows[id].archived
       /\ ~ rows[id].is_active
       /\ rows[id].archived_at # NULL
       /\ now - rows[id].archived_at >= DeleteDays

\* the memories a run of the batch has just selected
Selected(b) ==
    { batch_pc'[b].memories[i].id : i \in DOMAIN batch_pc'[b].memories }

\* rescue_memory applied to any id: it returns true; a memory of that id
\* gets adjustment 0 and no mark, date or reason, and keeps its final
\* score, user_rated, source, archived and is_active; every other memory,
\* and the table when the id has no row, is left as it was
RescueFrame ==
    \A id \in Ids :
       (ret'.op = "rescue" /\ RescueMemory(id)) =>
          /\ ret'.val = TRUE
          /\ DOMAIN rows' = DOMAIN rows
          /\ \A other \in DOMAIN rows \ {id} : rows'[other] = rows[other]
          /\ Exists(id) =>
                /\ rows'[id].user_score_adjustment = 0
                /\ ~ rows'[id].marked_for_deletion
                /\ rows'[id].marked_for_deletion_at = NULL
                /\ rows'[id].deletion_reason = "NULL"
                /\ rows'[id].final_importance_score = rows[id].final_importance_score
                /\ rows'[id].user_rated = rows[id].user_rated
                /\ rows'[id].score_source = rows[id].score_source
                /\ rows'[id].archived = rows[id].archived
                /\ rows'[id].is_active = rows[id].is_active

\* C36, for every rescued memory: rescue_memory can be called with any id
\* and acts as RescueFrame says, user_rated never returns to false, and no
\* run of the batch selects a memory that was rescued (a memory that is
\* not rated and has user_rated_at set was rescued).
C36_RescuedNeverSelected ==
    /\ [](\A id \in Ids : ENABLED RescueMemory(id))
    /\ [][ /\ RescueFrame
           /\ \A id \in DOMAIN rows \cap DOMAIN rows' :
                rows[id].user_rated => rows'[id].user_rated
           /\ \A b \in BatchCalls :
                (batch_pc[b].pc = "idle" /\ batch_pc'[b].pc = "items") =>
                   \A id \in Selected(b) : rows[id].user_rated_at = NULL
         ]_vars

\* C36, amended: rescue_memory can be called with any id and acts as
\* RescueFrame says, user_rated never returns to false, and no run of the
\* batch selects a rated memory, rescued or not.
C36_RescueFrame ==
    /\ [](\A id \in Ids : ENABLED RescueMemory(id))
    /\ [][ /\ RescueFrame
           /\ \A id \in DOMAIN rows \cap DOMAIN rows' :
                rows[id].user_rated => rows'[id].user_rated
           /\ \A b \in BatchCalls :
                (batch_pc[b].pc = "idle" /\ batch_pc'[b].pc = "items") =>
                   \A id \in Selected(b) : ~ rows[id].user_rated
         ]_vars

\* an archived memory rated -3 has just been rescued: adjustment 0, no
\* mark, still rated, archived and inactive, with the final score of the
\* rating
C36_Witness ==
    \E id \in DOMAIN rows :
       /\ ret = [ op |-> "rescue", val |-> TRUE ]
       /\ rows[id].user_rated
       /\ rows[id].user_rated_at = now
       /\ rows[id].user_score_adjustment = 0
       /\ ~ rows[id].marked_for_deletion
       /\ rows[id].marked_for_deletion_at = NULL
       /\ rows[id].deletion_reason = "NULL"
       /\ rows[id].archived
       /\ ~ rows[id].is_active
       /\ rows[id].score_source = "user_modified"
       /\ rows[id].final_importance_score =
             Clamp(EffectiveBase(rows[id]) - 30, MinScore, MaxScore)

\* C37: under repeated runs of the batch every active, unrated, unscored
\* memory whose own processing does not raise is in the end scored by the
\* judge (or has been rated or soft-deleted meanwhile), also when the
\* processing of an older memory raises on every attempt.
C37_EveryMemoryProcessed ==
    \A id \in Ids :
       (id \in Eligible /\ rows[id].content \notin RaisingContents)
       ~> (/\ Exists(id)
           /\ \/ rows[id].llm_processed
              \/ rows[id].user_rated
              \/ ~ rows[id].is_active)

====
